---- MODULE Spec2Model ----
(***************************************************************************)
(* A model of edgelib's level container: the dynamic spatial index         *)
(* (level/space.py DynamicMap), the bit-voxel codec (BitCube), and the     *)
(* level decoder and encoder (level/level.py Level.read / Level.write).    *)
(*                                                                         *)
(* numpy arrays of objects are modelled sparsely: an array is its shape    *)
(* and the function from the backing indices of its non-None cells to      *)
(* their contents.  Python objects are modelled by references (kind and    *)
(* allocation index), so that identity and field-wise equality differ.     *)
(***************************************************************************)
EXTENDS Integers, Sequences, FiniteSets, TLC

VARIABLES
    dm,       \* the DynamicMap under test
    placed,   \* history: the <<coordinate, part>> pairs inserted so far, in order
    last,     \* the last DynamicMap operation and its arguments
    ret,      \* what the last DynamicMap operation returned
    cube,     \* the BitCube under test
    stream,   \* the bytes BitCube.write produced from it
    back,     \* the BitCube that BitCube.read made of those bytes
    bcpc,     \* how far the BitCube has gone: "made", "written", "read"
    file,     \* the level file handed to Level.read
    lvl,      \* the Level that Level.read returned, as the later calls left it
    lpc,      \* what became of the read: "start", "loaded", "rejected"
    outs,     \* one entry per Level.write call: whether it returned, and the file
    reread,   \* what Level.read made of the file of the last write
    disk,     \* the content of the file at the path Level.write is given
    edits,    \* how many blocks have been stored into the Level's static map
    got,      \* the last read of the static map: its index and what it returned
    efile,    \* the ESO model file under test
    eso,      \* the ESO value ESO.read made of it
    epc,      \* how far the ESO round trip has come
    eout,     \* the file ESO.write produced
    eback     \* what ESO.read made of that file

dmVars == <<dm, placed, last, ret>>

bcVars == <<cube, stream, back, bcpc>>

lvVars == <<file, lvl, lpc, outs, reread, disk, edits, got>>

esVars == <<efile, eso, epc, eout, eback>>

vars == <<dmVars, bcVars, lvVars, esVars>>

----------------------------------------------------------------------------
(* Bounds *)

\* how many parts are inserted into the DynamicMap under test
MaxInserts == 3

\* the largest x and y extent of the BitCube under test
MaxSide == 3

\* the largest z extent (number of layers) of the BitCube under test
MaxLayers == 2

\* how many cells of the BitCube under test differ from the rest
MaxOdd == 2

----------------------------------------------------------------------------
(* Small helpers *)

Max(a, b) == IF a >= b THEN a ELSE b

Axes == 1..3

\* lexicographic order of integer triples (numpy's argwhere order)
LexLess(a, b) ==
    \/ a[1] < b[1]
    \/ a[1] = b[1] /\ a[2] < b[2]
    \/ a[1] = b[1] /\ a[2] = b[2] /\ a[3] < b[3]

RECURSIVE SortLex(_)
\* the triples of a finite set in lexicographic order
SortLex(S) ==
    IF S = {} THEN <<>>
    ELSE LET m == CHOOSE a \in S : \A b \in S \ {a} : LexLess(a, b)
         IN <<m>> \o SortLex(S \ {m})

RECURSIVE FlattenSeq(_)
\* the concatenation of a sequence of sequences
FlattenSeq(ss) ==
    IF ss = <<>> THEN <<>> ELSE Head(ss) \o FlattenSeq(Tail(ss))

----------------------------------------------------------------------------
(* Parts and cells *)

\* a reference to a Python object: its class and its allocation index
Ref(k, i) == [kind |-> k, idx |-> i]

\* isinstance(part, type), with DarkCube a subclass of HoloCube
IsInstance(part, type) ==
    \/ part.kind = type
    \/ type = "HoloCube" /\ part.kind = "DarkCube"
    \/ type = "DynamicPart"

\* the contents of one cell of the object array
NoneCell == [kind |-> "none", parts |-> <<>>]

PartCell(p) == [kind |-> "part", parts |-> <<p>>]

ListCell(ps) == [kind |-> "list", parts |-> ps]

\* the outcome of an index outside the array (numpy raises IndexError)
ErrorCell == [kind |-> "error", parts |-> <<>>]

\* an addition that replaces what the cell held
RAddReplacing(self, other) == PartCell(self)

\* DynamicPart.__radd__: self added to what the cell held
RAdd(self, other) ==
    IF other.kind = "none" THEN PartCell(self)
    ELSE IF other.kind = "list" THEN ListCell(other.parts \o <<self>>)
    ELSE ListCell(other.parts \o <<self>>)

----------------------------------------------------------------------------
(* numpy object arrays: [shape, cells] *)

NdFull(size) == [shape |-> size, cells |-> <<>>]

\* numpy's treatment of one integer index on an axis of length n
NdAxis(i, n) == IF i < 0 THEN i + n ELSE i

NdInRange(arr, idx) == \A a \in Axes : idx[a] >= -arr.shape[a] /\ idx[a] < arr.shape[a]

NdIndex(arr, idx) == [a \in Axes |-> NdAxis(idx[a], arr.shape[a])]

\* np.ndarray.__getitem__ with a full integer index
NdGet(arr, idx) ==
    IF ~NdInRange(arr, idx) THEN ErrorCell
    ELSE LET i == NdIndex(arr, idx)
         IN IF i \in DOMAIN arr.cells THEN arr.cells[i] ELSE NoneCell

\* np.ndarray.__setitem__ with a full integer index
NdSet(arr, idx, value) ==
    IF ~NdInRange(arr, idx) THEN arr
    ELSE LET i == NdIndex(arr, idx)
             keep == IF value.kind = "none" THEN DOMAIN arr.cells \ {i}
                     ELSE DOMAIN arr.cells \cup {i}
         IN [arr EXCEPT !.cells = [j \in keep |-> IF j = i THEN value ELSE arr.cells[j]]]

\* a pad that adds one spare index wherever it grows the high side of an axis
DMPadRoomy(arr, pa) ==
    LET lo == [a \in Axes |-> Max(0, pa[2 * a - 1])]
        hi == [a \in Axes |-> IF pa[2 * a] > 0 THEN pa[2 * a] + 1 ELSE 0]
        moved == {[a \in Axes |-> i[a] + lo[a]] : i \in DOMAIN arr.cells}
    IN [shape |-> [a \in Axes |-> arr.shape[a] + lo[a] + hi[a]],
        cells |-> [j \in moved |-> arr.cells[[a \in Axes |-> j[a] - lo[a]]]]]

\* np.pad(arr, ((w,e),(n,s),(b,t)), constant_values=None) with the max(0, .) of DynamicMap.pad
DMPad(arr, pa) ==
    LET lo == [a \in Axes |-> Max(0, pa[2 * a - 1])]
        hi == [a \in Axes |-> Max(0, pa[2 * a])]
        moved == {[a \in Axes |-> i[a] + lo[a]] : i \in DOMAIN arr.cells}
    IN [shape |-> [a \in Axes |-> arr.shape[a] + lo[a] + hi[a]],
        cells |-> [j \in moved |-> arr.cells[[a \in Axes |-> j[a] - lo[a]]]]]

----------------------------------------------------------------------------
(* DynamicMap *)

NewDynamicMap(size) == [map |-> NdFull(size), offset |-> <<0, 0, 0>>]

\* the six pad arguments of a full integer key (west, east, north, south, bottom, top)
DMPadArgs(d, key) ==
    [k \in 1..6 |->
        LET a == (k + 1) \div 2
        IN IF k % 2 = 1 THEN -key[a] - d.offset[a]
           ELSE key[a] + 1 - (d.map.shape[a] - d.offset[a])]

DMNeedsPad(pa) == \E k \in 1..6 : pa[k] > 0

\* an offset that padding forgets to move
DMStaleOffset(d, pa) == d.offset

\* the offset after padding: each axis rises by what was padded on its low side
DMNewOffset(d, pa) == [a \in Axes |-> d.offset[a] + Max(0, pa[2 * a - 1])]

\* a lookup that keeps what it padded (what __setitem__ does, wrong in __getitem__)
DMGetItemStoring(d, key) ==
    LET pa == DMPadArgs(d, key)
        temp == IF DMNeedsPad(pa) THEN DMPad(d.map, pa) ELSE d.map
        tempOffset == IF DMNeedsPad(pa) THEN DMNewOffset(d, pa) ELSE d.offset
    IN [value |-> NdGet(temp, [a \in Axes |-> key[a] + tempOffset[a]]),
        self |-> [map |-> temp, offset |-> tempOffset]]

\* DynamicMap.__getitem__: pads a temporary, never the stored map; the value
\* returned and the DynamicMap as the call leaves it
DMGetItemCall(d, key) ==
    LET pa == DMPadArgs(d, key)
        temp == IF DMNeedsPad(pa) THEN DMPad(d.map, pa) ELSE d.map
        tempOffset == IF DMNeedsPad(pa) THEN DMNewOffset(d, pa) ELSE d.offset
    IN [value |-> NdGet(temp, [a \in Axes |-> key[a] + tempOffset[a]]),
        self |-> d]

DMGetItem(d, key) == DMGetItemCall(d, key).value

\* DynamicMap.__setitem__: pads the stored map, moves the offset, stores the value
DMSetItem(d, key, value) ==
    LET pa == DMPadArgs(d, key)
        map1 == IF DMNeedsPad(pa) THEN DMPad(d.map, pa) ELSE d.map
        off1 == IF DMNeedsPad(pa) THEN DMNewOffset(d, pa) ELSE d.offset
    IN [map |-> NdSet(map1, [a \in Axes |-> key[a] + off1[a]], value), offset |-> off1]

\* DynamicMap.setitem_append, i.e. map[coords] += value
DMSetItemAppend(d, key, value) == DMSetItem(d, key, RAdd(value, DMGetItem(d, key)))

\* the pairs get_all takes from the cells of the given kind, in argwhere order
DMPairsOf(d, type, cellKind) ==
    LET idxs == SortLex({i \in DOMAIN d.map.cells : d.map.cells[i].kind = cellKind})
        pairsAt(i) ==
            LET ps == SelectSeq(d.map.cells[i].parts, LAMBDA p : IsInstance(p, type))
            IN [n \in 1..Len(ps) |->
                   [coord |-> [a \in Axes |-> i[a] - d.offset[a]], part |-> ps[n]]]
    IN FlattenSeq([n \in 1..Len(idxs) |-> pairsAt(idxs[n])])

\* a get_all that scans the single-occupant cells only
DMGetAllSingles(d, type) == DMPairsOf(d, type, "part")

\* DynamicMap.get_all: the single-occupant cells first, then the list cells
DMGetAll(d, type) == DMPairsOf(d, type, "part") \o DMPairsOf(d, type, "list")

\* DynamicMap.__eq__
DMEq(d, e) == d.map = e.map /\ d.offset = e.offset

----------------------------------------------------------------------------
(* The DynamicMap under test *)

\* the coordinates used: the spec's growth scenario, the origin, and one that
\* underflows one axis while it overflows another
DMCoords == {<<0, 0, 0>>, <<5, 5, 5>>, <<-3, -3, -3>>, <<100, 0, 0>>, <<-3, 5, 0>>}

DMKinds == {"MovingPlatform", "DarkCube"}

DMQueryTypes == {"MovingPlatform", "HoloCube", "DarkCube"}

NoOp == [op |-> "none", coord |-> <<0, 0, 0>>, type |-> "-"]

\* the DynamicMap variables while another component is under test
DMIdle ==
    /\ dm = NewDynamicMap(<<1, 1, 1>>)
    /\ placed = <<>>
    /\ last = NoOp
    /\ ret = NoneCell

\* the BitCube variables while another component is under test
BCIdle ==
    /\ cube = [shape |-> <<0, 0, 0>>, ones |-> {}]
    /\ stream = <<>>
    /\ back = [shape |-> <<0, 0, 0>>, ones |-> {}]
    /\ bcpc = "idle"

\* the Level variables while another component is under test
LVIdle ==
    /\ file = <<>>
    /\ lvl = [none |-> TRUE]
    /\ lpc = "idle"
    /\ outs = <<>>
    /\ reread = [done |-> FALSE]
    /\ disk = <<>>
    /\ edits = 0
    /\ got = [item |-> <<>>]

ESIdle ==
    /\ efile = <<>>
    /\ eso = [none |-> TRUE]
    /\ epc = "idle"
    /\ eout = <<>>
    /\ eback = [done |-> FALSE]

DMInit == DMIdle /\ BCIdle /\ LVIdle /\ ESIdle

\* map[c] += part
DMInsert ==
    \E c \in DMCoords, k \in DMKinds :
        /\ Len(placed) < MaxInserts
        /\ LET part == Ref(k, Len(placed))
           IN /\ dm' = DMSetItemAppend(dm, c, part)
              /\ placed' = Append(placed, [coord |-> c, part |-> part])
              /\ last' = [op |-> "insert", coord |-> c, type |-> k]
              /\ ret' = NoneCell
              /\ UNCHANGED <<bcVars, lvVars, esVars>>

\* map[c]
DMLookup ==
    \E c \in DMCoords :
        /\ ret' = DMGetItemCall(dm, c).value
        /\ dm' = DMGetItemCall(dm, c).self
        /\ last' = [op |-> "lookup", coord |-> c, type |-> "-"]
        /\ UNCHANGED <<placed, bcVars, lvVars, esVars>>

\* map.get_all(type)
DMCollect ==
    \E t \in DMQueryTypes :
        /\ ret' = DMGetAll(dm, t)
        /\ last' = [op |-> "get_all", coord |-> <<0, 0, 0>>, type |-> t]
        /\ UNCHANGED <<dm, placed, bcVars, lvVars, esVars>>

DMNext == DMInsert \/ DMLookup \/ DMCollect

SpecDM == DMInit /\ [][DMNext]_vars

----------------------------------------------------------------------------
(* Claims about the DynamicMap *)

\* the parts a lookup at c returns
DMPartsAt(d, c) == DMGetItem(d, c).parts

\* c lies outside the logical range [-offset, shape - offset) on some axis
DMOutOfBounds(d, c) ==
    \E a \in Axes : c[a] < -d.offset[a] \/ c[a] >= d.map.shape[a] - d.offset[a]

\* the pairs inserted so far whose part is an instance of type
PlacedOf(type) == {placed[n] : n \in {m \in 1..Len(placed) : IsInstance(placed[m].part, type)}}

\* C3: after any sequence of inserts into a map that started at size (1,1,1),
\* every part inserted so far is among the parts a lookup returns at the
\* coordinate it was inserted at, whatever growth and offset changes followed.
C3_InsertedStayReachable ==
    \A n \in 1..Len(placed) :
        \E m \in 1..Len(DMPartsAt(dm, placed[n].coord)) :
            DMPartsAt(dm, placed[n].coord)[m] = placed[n].part

\* the spec's scenario: (5,5,5), then (-3,-3,-3), then (100,0,0)
C3_Witness ==
    /\ Len(placed) = 3
    /\ placed[1].coord = <<5, 5, 5>>
    /\ placed[2].coord = <<-3, -3, -3>>
    /\ placed[3].coord = <<100, 0, 0>>
    /\ dm.offset = <<3, 3, 3>>
    /\ dm.map.shape = <<104, 9, 9>>

\* C4: an insert at a coordinate that already holds parts leaves every previous
\* occupant in place and in order, and puts the new part after them.
C4_InsertAppends ==
    [][(last'.op = "insert" /\ Len(placed') = Len(placed) + 1
          /\ DMGetItem(dm, last'.coord).kind # "none")
        => DMPartsAt(dm', last'.coord)
             = DMPartsAt(dm, last'.coord) \o <<placed'[Len(placed')].part>>]_vars

\* a third part has been added to a cell that held a list of two
C4_Witness ==
    /\ last.op = "insert"
    /\ DMGetItem(dm, last.coord).kind = "list"
    /\ Len(DMPartsAt(dm, last.coord)) = 3
    /\ DMPartsAt(dm, last.coord)[3] = placed[3].part

\* C5: a lookup outside the current bounds returns the absent value and leaves
\* the stored map and the offset as they were.
C5_LookupOutsideBounds ==
    [][(last'.op = "lookup" /\ DMOutOfBounds(dm, last'.coord))
        => (ret' = NoneCell /\ dm' = dm)]_vars

\* a lookup outside the bounds of a map that already holds parts
C5_Witness ==
    /\ last.op = "lookup"
    /\ DMOutOfBounds(dm, last.coord)
    /\ placed # <<>>
    /\ ret = NoneCell

\* C6: get_all(type) returns exactly one pair for every stored part of that
\* type or of a subclass of it, from single cells and from list cells alike,
\* each with the logical coordinate the part was inserted at.
C6_GetAllExact ==
    last.op = "get_all" =>
        /\ {ret[n] : n \in 1..Len(ret)} = PlacedOf(last.type)
        /\ Len(ret) = Cardinality(PlacedOf(last.type))

\* get_all(HoloCube) over a shifted map returns a DarkCube from a single cell
\* and one from a list cell
C6_Witness ==
    /\ last.op = "get_all"
    /\ last.type = "HoloCube"
    /\ Len(ret) = 2
    /\ ret[1].part.kind = "DarkCube"
    /\ dm.offset # <<0, 0, 0>>
    /\ DMGetItem(dm, ret[1].coord).kind = "part"
    /\ DMGetItem(dm, ret[2].coord).kind = "list"

\* C7: the list get_all returns is in lexicographic coordinate order.
C7_GetAllCoordinateOrder ==
    last.op = "get_all" =>
        \A i, j \in 1..Len(ret) : i < j => ~LexLess(ret[j].coord, ret[i].coord)

----------------------------------------------------------------------------
(* BitCube *)

\* a cube of bits: its shape (x, y, z) and the indices of its 1 bits
BitCubeOf(shape, ones) == [shape |-> shape, ones |-> ones]

\* the indices of an array of the given shape
CellsOf(shape) == (0..shape[1] - 1) \X (0..shape[2] - 1) \X (0..shape[3] - 1)

\* BitCube.zeros
BCZeros(size) == BitCubeOf(size, {})

\* int(np.ceil(layer_length / 8))
BytesPerLayer(size) == (size[1] * size[2] + 7) \div 8

Pow2(n) == [k \in 0..8 |-> CASE k = 0 -> 1 [] k = 1 -> 2 [] k = 2 -> 4 [] k = 3 -> 8
                             [] k = 4 -> 16 [] k = 5 -> 32 [] k = 6 -> 64
                             [] k = 7 -> 128 [] OTHER -> 256][n]

\* layer z of data.T, flattened: row y after row y, x fastest
LayerBits(c, z) ==
    [n \in 1..(c.shape[1] * c.shape[2]) |->
        IF <<(n - 1) % c.shape[1], (n - 1) \div c.shape[1], z>> \in c.ones THEN 1 ELSE 0]

\* a flattening that runs x after x, y fastest (the transposition left out)
LayerBitsUntransposed(c, z) ==
    [n \in 1..(c.shape[1] * c.shape[2]) |->
        IF <<(n - 1) \div c.shape[2], (n - 1) % c.shape[2], z>> \in c.ones THEN 1 ELSE 0]

\* the flattening BitCube.write uses
WriteLayerBits(c, z) == LayerBits(c, z)

\* BitArray(bits).tobytes(): most significant bit first, the last byte padded with 0 bits
PackBits(bits) ==
    LET bit(n) == IF n <= Len(bits) THEN bits[n] ELSE 0
    IN [b \in 1..((Len(bits) + 7) \div 8) |->
           bit(8 * b - 7) * 128 + bit(8 * b - 6) * 64 + bit(8 * b - 5) * 32
           + bit(8 * b - 4) * 16 + bit(8 * b - 3) * 8 + bit(8 * b - 2) * 4
           + bit(8 * b - 1) * 2 + bit(8 * b)]

\* BitArray(bytes): bit n (from 1) of a byte sequence
BitOfBytes(bytes, n) ==
    (bytes[(n + 7) \div 8] \div Pow2(7 - ((n - 1) % 8))) % 2

\* BitCube.write: the layers from z = 0 up, each packed on its own
BCWrite(c) ==
    FlattenSeq([l \in 1..c.shape[3] |-> PackBits(WriteLayerBits(c, l - 1))])

\* BitCube.read: bytes_per_layer bytes per layer, the first x*y bits of each
\* reshaped to (y, x), the array transposed to (x, y, z)
BCRead(bytes, size) ==
    LET bpl == BytesPerLayer(size)
        layer(z) == SubSeq(bytes, z * bpl + 1, (z + 1) * bpl)
    IN BitCubeOf(size,
                 {i \in CellsOf(size) :
                     BitOfBytes(layer(i[3]), i[2] * size[1] + i[1] + 1) = 1})

\* BitCube.__eq__
BCEq(c, d) == c.shape = d.shape /\ c.ones = d.ones

RECURSIVE SubsetsUpTo(_, _)
\* the subsets of S with at most k elements
SubsetsUpTo(S, k) ==
    IF k = 0 THEN {{}}
    ELSE LET prev == SubsetsUpTo(S, k - 1)
         IN prev \cup {T \cup {e} : T \in prev, e \in S}

NoCube == BitCubeOf(<<0, 0, 0>>, {})

\* any cube of the bounded sizes that is all 0 or all 1 but for MaxOdd cells
BCInit ==
    /\ \E x \in 1..MaxSide, y \in 1..MaxSide, z \in 1..MaxLayers :
         \E odd \in SubsetsUpTo(CellsOf(<<x, y, z>>), MaxOdd), mostlyOnes \in BOOLEAN :
             cube = BitCubeOf(<<x, y, z>>,
                              IF mostlyOnes THEN CellsOf(<<x, y, z>>) \ odd ELSE odd)
    /\ stream = <<>>
    /\ back = NoCube
    /\ bcpc = "made"
    /\ DMIdle
    /\ LVIdle
    /\ ESIdle

\* cube.write(writer)
BCWriteStep ==
    /\ bcpc = "made"
    /\ stream' = BCWrite(cube)
    /\ bcpc' = "written"
    /\ UNCHANGED <<cube, back, dmVars, lvVars, esVars>>

\* BitCube.read(reader, size) on the bytes written
BCReadStep ==
    /\ bcpc = "written"
    /\ back' = BCRead(stream, cube.shape)
    /\ bcpc' = "read"
    /\ UNCHANGED <<cube, stream, dmVars, lvVars, esVars>>

BCNext == BCWriteStep \/ BCReadStep

SpecBC == BCInit /\ [][BCNext]_vars

\* the last byte of layer l (from 1) of the written stream
LastByteOfLayer(l) == stream[l * BytesPerLayer(cube.shape)]

\* the number of padding bits in the last byte of a layer
PadBits(size) == 8 * BytesPerLayer(size) - size[1] * size[2]

\* C8: reading what BitCube.write wrote gives back an equal cube; every layer
\* takes ceil(x*y/8) bytes and the unused low bits of its last byte are 0.
C8_BitCubeRoundTrip ==
    /\ bcpc # "made" =>
         /\ Len(stream) = cube.shape[3] * BytesPerLayer(cube.shape)
         /\ \A l \in 1..cube.shape[3] :
                LastByteOfLayer(l) % Pow2(PadBits(cube.shape)) = 0
    /\ bcpc = "read" => BCEq(back, cube)

\* a 2 x 3 x 2 cube (6 bits a layer, 2 padding bits) with all bits but one set
C8_Witness ==
    /\ bcpc = "read"
    /\ cube.shape = <<2, 3, 2>>
    /\ Cardinality(cube.ones) = 11
    /\ <<1, 0, 1>> \notin cube.ones
    /\ stream = <<252, 188>>

----------------------------------------------------------------------------
(* Values shared by the level file and the in-memory Level *)

\* the integer standing for None in an optional integer field
NoneInt == -1

\* the value of an entity that has no attribute _id
NoId == -1

\* the attribute _position: absent (deleted), None, or a point
PosAbsent == [has |-> "absent", at |-> <<0, 0, 0>>]

PosNone == [has |-> "none", at |-> <<0, 0, 0>>]

PosAt(p) == [has |-> "set", at |-> p]

\* Point3D.__add__ and Point3D.__sub__
PointAdd(p, q) == <<p[1] + q[1], p[2] + q[2], p[3] + q[3]>>

PointSub(p, q) == <<p[1] - q[1], p[2] - q[2], p[3] - q[3]>>

\* a field that holds None, an on-disk index not yet resolved, or an object
RNone == [tag |-> "none", kind |-> "-", idx |-> 0]

RInt(i) == [tag |-> "int", kind |-> "-", idx |-> i]

RObj(r) == [tag |-> "ref", kind |-> r.kind, idx |-> r.idx]

\* the object a resolved field refers to
RefOf(t) == Ref(t.kind, t.idx)

\* Python truthiness of such a field: None and 0 are false, objects are true
Truthy(t) == t.tag = "ref" \/ (t.tag = "int" /\ t.idx # 0)

\* list[i] in Python: a negative index counts from the end; the index is valid
PyIndexOk(list, i) == i >= -Len(list) /\ i < Len(list)

\* the position (from 0) that list[i] addresses
PyIndexPos(list, i) == IF i < 0 THEN i + Len(list) ELSE i

----------------------------------------------------------------------------
(* StaticMap *)

\* Block.full() and the other non-empty blocks are kept; Block.empty() cells are
\* the indices of the array that the function does not list
BlockFull == [collision |-> TRUE, visible |-> TRUE]

\* BitCube.to_static_map
ToStaticMap(c) == [shape |-> c.shape, blocks |-> [i \in c.ones |-> BlockFull]]

\* StaticMap.to_collision_map
ToCollisionMap(sm) ==
    BitCubeOf(sm.shape, {i \in DOMAIN sm.blocks : sm.blocks[i].collision})

\* np.max(np.argwhere(mask), axis=0) raises on an empty mask
StaticSizeOk(sm) == DOMAIN sm.blocks # {}

\* the largest value of a non-empty finite set of integers
SetMax(S) == CHOOSE m \in S : \A n \in S : n <= m

\* StaticMap.size: the tight box around the non-empty blocks
StaticSize(sm) == [a \in Axes |-> SetMax({i[a] : i \in DOMAIN sm.blocks}) + 1]

\* Block.empty()
BlockEmpty == [collision |-> FALSE, visible |-> FALSE]

\* the element of the block array at an index inside its shape
BlockAt(sm, i) == IF i \in DOMAIN sm.blocks THEN sm.blocks[i] ELSE BlockEmpty

\* a resize that gives the array the requested extent on every axis
StaticResizeExact(sm, size) == [sm EXCEPT !.shape = size]

\* StaticMap.resize: np.pad by max(0, size - shape) behind each axis, with
\* Block.empty() in the new cells
StaticResize(sm, size) ==
    [shape |-> [a \in Axes |-> sm.shape[a] + Max(0, size[a] - sm.shape[a])],
     blocks |-> sm.blocks]

\* the size both accessors compute from a tuple of integers
ItemSize(item) == [a \in Axes |-> item[a] + 1]

\* StaticMap.__getitem__ for a tuple of non-negative integers: the element of the
\* array, or of a resized copy when the index is beyond the shape
StaticGetItem(sm, item) ==
    LET temp == IF \E a \in Axes : ItemSize(item)[a] > sm.shape[a]
                THEN StaticResize(sm, ItemSize(item)) ELSE sm
    IN BlockAt(temp, item)

\* np.ndarray.__setitem__ of one element
StorePut(sm, key, value) ==
    [sm EXCEPT !.blocks =
        IF value = BlockEmpty THEN [i \in DOMAIN sm.blocks \ {key} |-> sm.blocks[i]]
        ELSE [i \in DOMAIN sm.blocks \cup {key} |-> IF i = key THEN value ELSE sm.blocks[i]]]

\* StaticMap.__setitem__ for a tuple of non-negative integers
StaticSetItem(sm, key, value) ==
    StorePut(IF \E a \in Axes : ItemSize(key)[a] > sm.shape[a]
             THEN StaticResize(sm, ItemSize(key)) ELSE sm,
             key, value)

----------------------------------------------------------------------------
(* Decoding the entity tables *)

\* MovingPlatform.read and Waypoint.read
PlatformReadOk(fp) == fp.clones = -1 /\ Len(fp.waypoints) > 0

\* a decoding that keeps each waypoint's absolute position as its offset
ReadPlatformAbsolute(fp) ==
    [auto_start |-> fp.auto_start = 2,
     loop |-> IF fp.loop = 0 THEN NoneInt ELSE fp.loop - 1,
     full_block |-> fp.full_block # 0,
     waypoints |-> [n \in 1..Len(fp.waypoints) |->
                      [offset |-> fp.waypoints[n].pos,
                       times |-> fp.waypoints[n].times,
                       pos |-> PosAt(fp.waypoints[n].pos)]],
     clones |-> fp.clones,
     pos |-> PosAt(fp.waypoints[1].pos),
     id |-> NoId]

ReadPlatform(fp) ==
    [auto_start |-> fp.auto_start = 2,
     loop |-> IF fp.loop = 0 THEN NoneInt ELSE fp.loop - 1,
     full_block |-> fp.full_block # 0,
     waypoints |-> [n \in 1..Len(fp.waypoints) |->
                      [offset |-> PointSub(fp.waypoints[n].pos, fp.waypoints[1].pos),
                       times |-> fp.waypoints[n].times,
                       pos |-> PosAt(fp.waypoints[n].pos)]],
     clones |-> fp.clones,
     pos |-> PosAt(fp.waypoints[1].pos),
     id |-> NoId]

\* Bumper.read
ReadBumper(fb) ==
    [enabled |-> fb.enabled # 0, sides |-> fb.sides, pos |-> PosAt(fb.pos), id |-> NoId]

\* FallingPlatform.read, Checkpoint.read, Resizer.read: position and plain fields
ReadPlain(fe) == [fields |-> fe.fields, pos |-> PosAt(fe.pos), id |-> NoId]

\* the fields a CameraTrigger has when the file holds none (zoom # -1)
CameraDefaults == [reset |-> "None", start_delay |-> 0, duration |-> 0,
                   angle_or_fov |-> 22, single_use |-> "False", is_angle |-> "None"]

PyBool(byte) == IF byte # 0 THEN "True" ELSE "False"

\* CameraTrigger.read
CameraReadOk(fc) == -1 <= fc.zoom /\ fc.zoom <= 6

ReadCamera(fc) ==
    [zoom |-> fc.zoom,
     radius |-> fc.radius,
     ext |-> IF fc.zoom = -1
             THEN [reset |-> PyBool(fc.ext.reset), start_delay |-> fc.ext.start_delay,
                   duration |-> fc.ext.duration, angle_or_fov |-> fc.ext.angle_or_fov,
                   single_use |-> PyBool(fc.ext.single_use),
                   is_angle |-> PyBool(fc.ext.is_angle)]
             ELSE CameraDefaults,
     pos |-> PosAt(fc.pos), id |-> NoId]

\* Prism.read
PrismReadOk(fp) == fp.energy = 1

ReadPrism(fp) == [energy |-> fp.energy, pos |-> PosAt(fp.pos), id |-> NoId]

\* BlockEventType
EvPlatform == 0
EvBumper == 1
EvAchievement == 2
EvButton == 3

\* BlockEvent.read: the enum constructors raise on a value that is no member
EventReadOk(fe) ==
    /\ fe.type \in {EvPlatform, EvBumper, EvAchievement, EvButton}
    /\ fe.type \in {EvBumper, EvButton} => fe.payload \in {0, 1}

ReadEvent(fe) == [type |-> fe.type, target |-> RInt(fe.id), payload |-> fe.payload, id |-> NoId]

\* ButtonMode
ModeToggle == 0
ModeStayUp == 1
ModeStayDown == 2

\* Button.read
ButtonReadOk(fb) ==
    /\ fb.visible \in 0..2
    /\ fb.mode \in {ModeToggle, ModeStayUp, ModeStayDown}
    /\ fb.parent_id >= 0 =>
         fb.mode = ModeStayDown /\ Len(fb.events) = 0 /\ fb.children_count = 0

ReadButton(fb) ==
    [visible |-> fb.visible, disable_count |-> fb.disable_count, mode |-> fb.mode,
     parent_id |-> fb.parent_id, sequence_in_order |-> fb.sequence_in_order # 0,
     children_count |-> fb.children_count,
     moving_platform |-> IF fb.is_moving # 0 THEN RInt(fb.platform_id) ELSE RNone,
     events |-> [n \in 1..Len(fb.events) |-> RInt(fb.events[n])],
     pos |-> IF fb.is_moving # 0 THEN PosNone ELSE PosAt(fb.pos),
     id |-> NoId]

\* HoloCube.read: a first sync value of -2 marks a DarkCube (file field dark)
ReadCube(fc) ==
    [dark |-> fc.dark,
     radius |-> fc.radius,
     offset_cube |-> PointSub(fc.cube_pos, fc.pos),
     moving_block_sync |-> IF fc.sync = -1 THEN RNone ELSE RInt(fc.sync),
     key_events |-> fc.key_events,
     pos |-> PosAt(fc.pos), id |-> NoId]

CubeKind(c) == IF c.dark THEN "DarkCube" ELSE "HoloCube"

\* the decode table that holds the objects of a class
TableOf(kind) == IF kind = "DarkCube" THEN "HoloCube" ELSE kind

\* the object a reference names, in a Level's tables
Obj(heap, r) == heap[TableOf(r.kind)][r.idx + 1]

\* the tables of a Level with one object replaced
HeapPut(heap, r, o) == [heap EXCEPT ![TableOf(r.kind)][r.idx + 1] = o]

----------------------------------------------------------------------------
(* Level.read *)

\* assert s_plus_time < s_time < a_time < b_time < c_time
\* a comparison of the thresholds that lets two neighbours be equal
TimesOkOrEqual(f) == \A n \in 1..4 : f.times[n] <= f.times[n + 1]

TimesOk(f) == \A n \in 1..4 : f.times[n] < f.times[n + 1]

\* a header check that leaves out the field holding size.y - 1
RedundantOkWithoutShort5(f) ==
    /\ f.us1 = f.size[1] + f.size[2]
    /\ f.us2 = f.us1 + 2 * f.size[3]
    /\ f.mmw = (f.us1 + 9) \div 10
    /\ f.mml = (f.us2 + 9) \div 10
    /\ f.ub1 = 10
    /\ f.us6 = 0

\* the asserts on the seven redundant header fields
RedundantOk(f) ==
    /\ f.us1 = f.size[1] + f.size[2]
    /\ f.us2 = f.us1 + 2 * f.size[3]
    /\ f.mmw = (f.us1 + 9) \div 10
    /\ f.mml = (f.us2 + 9) \div 10
    /\ f.ub1 = 10
    /\ f.us5 = f.size[2] - 1
    /\ f.us6 = 0

\* everything Level.read checks up to the entity tables
HeaderOk(f) == TimesOk(f) /\ RedundantOk(f) /\ f.spawn[3] >= -20

\* the checks each table's reader makes, and the deprecated counts
TablesOk(f) ==
    /\ \A n \in 1..Len(f.platforms) : PlatformReadOk(f.platforms[n])
    /\ \A n \in 1..Len(f.cameras) : CameraReadOk(f.cameras[n])
    /\ Len(f.prisms) = f.prisms_count
    /\ \A n \in 1..Len(f.prisms) : PrismReadOk(f.prisms[n])
    /\ f.fan_count = 0
    /\ \A n \in 1..Len(f.events) : EventReadOk(f.events[n])
    /\ \A n \in 1..Len(f.buttons) : ButtonReadOk(f.buttons[n])
    /\ f.mini_block_count = 0

\* the tables as the readers return them, references still on-disk indices
RawHeap(f) ==
    [MovingPlatform |-> [n \in 1..Len(f.platforms) |-> ReadPlatform(f.platforms[n])],
     Bumper |-> [n \in 1..Len(f.bumpers) |-> ReadBumper(f.bumpers[n])],
     FallingPlatform |-> [n \in 1..Len(f.falling) |-> ReadPlain(f.falling[n])],
     Checkpoint |-> [n \in 1..Len(f.checkpoints) |-> ReadPlain(f.checkpoints[n])],
     CameraTrigger |-> [n \in 1..Len(f.cameras) |-> ReadCamera(f.cameras[n])],
     Prism |-> [n \in 1..Len(f.prisms) |-> ReadPrism(f.prisms[n])],
     BlockEvent |-> [n \in 1..Len(f.events) |-> ReadEvent(f.events[n])],
     Button |-> [n \in 1..Len(f.buttons) |-> ReadButton(f.buttons[n])],
     HoloCube |-> [n \in 1..Len(f.cubes) |-> ReadCube(f.cubes[n])],
     Resizer |-> [n \in 1..Len(f.resizers) |-> ReadPlain(f.resizers[n])]]

\* the class an event of the given type targets
EventTargetKind(type) ==
    CASE type = EvPlatform -> "MovingPlatform"
      [] type = EvBumper -> "Bumper"
      [] type = EvButton -> "Button"
      [] OTHER -> "-"

\* list[i] as a resolved reference into the table of a class
Resolved(heap, kind, i) == RObj(Ref(kind, PyIndexPos(heap[kind], i)))

\* an event resolution that skips a falsy index, as the button and cube loops do
ResolveEventIfTruthy(heap, e) ==
    IF e.type = EvAchievement \/ ~Truthy(e.target) THEN e
    ELSE [e EXCEPT !.target = Resolved(heap, EventTargetKind(e.type), e.target.idx)]

\* resolve references in block events: event.moving_platform = moving_platforms[...]
EventResolveOk(heap, e) ==
    e.type # EvAchievement => PyIndexOk(heap[EventTargetKind(e.type)], e.target.idx)

ResolveEvent(heap, e) ==
    IF e.type = EvAchievement THEN e
    ELSE [e EXCEPT !.target = Resolved(heap, EventTargetKind(e.type), e.target.idx)]

\* resolve references in buttons
ButtonResolveOk(heap, b) ==
    /\ \A n \in 1..Len(b.events) : b.events[n].idx < Len(heap.BlockEvent)
    /\ Truthy(b.moving_platform) => PyIndexOk(heap.MovingPlatform, b.moving_platform.idx)

ResolveButton(heap, b) ==
    LET evs == [n \in 1..Len(b.events) |-> RObj(Ref("BlockEvent", b.events[n].idx))]
        mp == Resolved(heap, "MovingPlatform", b.moving_platform.idx)
    IN IF Truthy(b.moving_platform)
       THEN [b EXCEPT !.events = evs, !.moving_platform = mp,
                      !.pos = PosAt(PointAdd(Obj(heap, RefOf(mp)).pos.at, <<0, 0, 1>>))]
       ELSE [b EXCEPT !.events = evs]

\* resolve references in othercubes
CubeResolveOk(heap, c) ==
    Truthy(c.moving_block_sync) => PyIndexOk(heap.MovingPlatform, c.moving_block_sync.idx)

ResolveCube(heap, c) ==
    IF Truthy(c.moving_block_sync)
    THEN [c EXCEPT !.moving_block_sync = Resolved(heap, "MovingPlatform", c.moving_block_sync.idx)]
    ELSE c

ResolveOk(heap) ==
    /\ \A n \in 1..Len(heap.BlockEvent) : EventResolveOk(heap, heap.BlockEvent[n])
    /\ \A n \in 1..Len(heap.Button) : ButtonResolveOk(heap, heap.Button[n])
    /\ \A n \in 1..Len(heap.HoloCube) : CubeResolveOk(heap, heap.HoloCube[n])

ResolveAll(heap) ==
    [heap EXCEPT
        !.BlockEvent = [n \in 1..Len(heap.BlockEvent) |-> ResolveEvent(heap, heap.BlockEvent[n])],
        !.Button = [n \in 1..Len(heap.Button) |-> ResolveButton(heap, heap.Button[n])],
        !.HoloCube = [n \in 1..Len(heap.HoloCube) |-> ResolveCube(heap, heap.HoloCube[n])]]

\* the positions (from 1) of the buttons whose _parent_id is id
ChildrenOf(buttons, id) ==
    SelectSeq([n \in 1..Len(buttons) |-> n], LAMBDA n : buttons[n].parent_id = id)

\* extract button sequences: assert button._children_count == len(children)
SequencesOk(buttons) ==
    \A n \in 1..Len(buttons) :
        buttons[n].children_count > 0 =>
            buttons[n].children_count = Len(ChildrenOf(buttons, n - 1))

ExtractSequences(buttons) ==
    LET parents == SelectSeq([n \in 1..Len(buttons) |-> n],
                             LAMBDA n : buttons[n].children_count > 0)
        members(p) == <<Ref("Button", p - 1)>>
                      \o [k \in 1..Len(ChildrenOf(buttons, p - 1)) |->
                             Ref("Button", ChildrenOf(buttons, p - 1)[k] - 1)]
    IN [k \in 1..Len(parents) |->
           [buttons |-> members(parents[k]),
            sequence_in_order |-> buttons[parents[k]].sequence_in_order,
            events |-> buttons[parents[k]].events]]

\* the references to every object of a table, in table order
RefsOf(heap, table) ==
    [n \in 1..Len(heap[table]) |->
        Ref(IF table = "HoloCube" THEN CubeKind(heap[table][n]) ELSE table, n - 1)]

\* the order in which Level.read puts the parts into the dynamic map
PartOrder(heap) ==
    RefsOf(heap, "MovingPlatform") \o RefsOf(heap, "Bumper") \o RefsOf(heap, "FallingPlatform")
    \o RefsOf(heap, "Checkpoint") \o RefsOf(heap, "CameraTrigger") \o RefsOf(heap, "Prism")
    \o RefsOf(heap, "Button") \o RefsOf(heap, "HoloCube") \o RefsOf(heap, "Resizer")

\* part._position.x raises when _position is None
PartsPlaceable(heap) ==
    \A n \in 1..Len(PartOrder(heap)) : Obj(heap, PartOrder(heap)[n]).pos.has = "set"

RECURSIVE PlaceParts(_, _, _)
\* dynamic_map[x, y, z] += part, for the parts from position n on
PlaceParts(d, heap, n) ==
    IF n > Len(PartOrder(heap)) THEN d
    ELSE PlaceParts(DMSetItemAppend(d, Obj(heap, PartOrder(heap)[n]).pos.at, PartOrder(heap)[n]),
                    heap, n + 1)

\* del part._position, for every part placed
DropPositions(heap) ==
    [t \in DOMAIN heap |->
        IF t = "BlockEvent" THEN heap[t]
        ELSE [n \in 1..Len(heap[t]) |-> [heap[t][n] EXCEPT !.pos = PosAbsent]]]

NoLevel == [none |-> TRUE]

\* Level.read: whether the file decodes, and the Level it decodes to
ReadLevelOk(f) ==
    /\ HeaderOk(f)
    /\ TablesOk(f)
    /\ ResolveOk(RawHeap(f))
    /\ SequencesOk(RawHeap(f).Button)
    /\ StaticSizeOk(ToStaticMap(BCRead(f.collision, f.size)))
    /\ PartsPlaceable(ResolveAll(RawHeap(f)))

ReadLevelValue(f) ==
    LET heap == ResolveAll(RawHeap(f))
        static == ToStaticMap(BCRead(f.collision, f.size))
    IN [meta |-> f.meta,
        times |-> f.times,
        zoom |-> f.zoom,
        angle_or_fov |-> IF f.zoom < 0 THEN f.angle_or_fov ELSE 0,
        is_angle |-> IF f.zoom < 0 THEN f.is_angle # 0 ELSE FALSE,
        spawn_point |-> f.spawn,
        exit_point |-> f.exit,
        legacy_minimap |-> BCRead(f.minimap, <<f.mmw, f.mml, 1>>),
        static_map |-> static,
        dynamic_map |-> PlaceParts(NewDynamicMap(StaticSize(static)), heap, 1),
        button_sequences |-> ExtractSequences(heap.Button),
        heap |-> DropPositions(heap)]

ReadLevel(f) ==
    IF ReadLevelOk(f) THEN [ok |-> TRUE, level |-> ReadLevelValue(f)]
    ELSE [ok |-> FALSE, level |-> NoLevel]

----------------------------------------------------------------------------
(* Field-wise equality of objects (the dataclass __eq__) *)

RECURSIVE ValOf(_, _)
\* the value __eq__ compares: the class and the dataclass fields that take part
\* in comparison (not _id, not _position, not the Button fields with compare=False)
ValOf(heap, r) ==
    LET o == Obj(heap, r)
        field(t) == IF t.tag = "ref"
                    THEN [tag |-> "ref", int |-> 0, obj |-> <<ValOf(heap, RefOf(t))>>]
                    ELSE [tag |-> t.tag, int |-> t.idx, obj |-> <<>>]
    IN CASE r.kind = "MovingPlatform" ->
              [class |-> r.kind,
               f |-> <<o.auto_start, o.loop, o.full_block,
                       [n \in 1..Len(o.waypoints) |->
                           <<o.waypoints[n].offset, o.waypoints[n].times>>],
                       o.clones>>]
         [] r.kind = "Bumper" -> [class |-> r.kind, f |-> <<o.enabled, o.sides>>]
         [] r.kind \in {"FallingPlatform", "Checkpoint", "Resizer"} ->
              [class |-> r.kind, f |-> <<o.fields>>]
         [] r.kind = "CameraTrigger" -> [class |-> r.kind, f |-> <<o.zoom, o.radius, o.ext>>]
         [] r.kind = "Prism" -> [class |-> r.kind, f |-> <<o.energy>>]
         [] r.kind = "BlockEvent" ->
              [class |-> <<r.kind, o.type>>, f |-> <<field(o.target), o.payload>>]
         [] r.kind = "Button" ->
              [class |-> r.kind,
               f |-> <<o.visible, o.disable_count, o.mode, field(o.moving_platform),
                       [n \in 1..Len(o.events) |-> field(o.events[n])]>>]
         [] r.kind = "HoloCube" ->
              [class |-> r.kind,
               f |-> <<o.offset_cube, field(o.moving_block_sync), o.key_events>>]
         [] r.kind = "DarkCube" ->
              [class |-> r.kind,
               f |-> <<o.offset_cube, field(o.moving_block_sync), o.key_events, o.radius>>]

----------------------------------------------------------------------------
(* Level.write: button sequences into ordinary buttons *)

\* list.index(x): the position (from 1) of the first element that is x or equals
\* it field by field, 0 if there is none
IndexOfPart(heap, pairs, x) ==
    LET hits == {n \in 1..Len(pairs) :
                    pairs[n].part = x \/ ValOf(heap, pairs[n].part) = ValOf(heap, x)}
    IN IF hits = {} THEN 0 ELSE CHOOSE n \in hits : \A m \in hits : n <= m

\* list.pop(index), the list that is left
RemoveAt(list, n) == SubSeq(list, 1, n - 1) \o SubSeq(list, n + 1, Len(list))

\* the parent of one sequence: found by index(), popped, its linkage fields and
\* events overwritten, then the assert on its mode
FlattenParent(st, seq) ==
    LET parent == seq.buttons[1]
        index == IndexOfPart(st.heap, st.buttons, parent)
        o == Obj(st.heap, parent)
        marked == [o EXCEPT !.parent_id = -1,
                            !.sequence_in_order = seq.sequence_in_order,
                            !.children_count = Len(seq.buttons) - 1,
                            !.events = seq.events]
    IN IF index = 0 THEN [st EXCEPT !.ok = FALSE]
       ELSE [ok |-> o.mode = ModeStayDown,
             heap |-> HeapPut(st.heap, parent, marked),
             buttons |-> RemoveAt(st.buttons, index),
             from_sequences |-> IF o.mode = ModeStayDown
                                THEN Append(st.from_sequences,
                                            [coord |-> st.buttons[index].coord, part |-> parent])
                                ELSE st.from_sequences]

\* one child of a sequence: the three asserts, the linkage fields, index() and pop
FlattenChild(st, seq, parentId, child) ==
    LET o == Obj(st.heap, child)
        marked == [o EXCEPT !.sequence_in_order = seq.sequence_in_order,
                            !.parent_id = parentId]
        heap1 == HeapPut(st.heap, child, marked)
        index == IndexOfPart(heap1, st.buttons, child)
    IN IF ~(Len(o.events) = 0 /\ o.mode = ModeStayDown /\ o.children_count = 0)
       THEN [st EXCEPT !.ok = FALSE]
       ELSE IF index = 0 THEN [st EXCEPT !.ok = FALSE, !.heap = heap1]
       ELSE [ok |-> TRUE,
             heap |-> heap1,
             buttons |-> RemoveAt(st.buttons, index),
             from_sequences |-> Append(st.from_sequences,
                                       [coord |-> st.buttons[index].coord, part |-> child])]

RECURSIVE FlattenChildren(_, _, _, _)
\* the children of a sequence from member n on
FlattenChildren(st, seq, parentId, n) ==
    IF ~st.ok \/ n > Len(seq.buttons) THEN st
    ELSE FlattenChildren(FlattenChild(st, seq, parentId, seq.buttons[n]), seq, parentId, n + 1)

RECURSIVE FlattenSequencesToFirst(_, _, _)
\* a flattening that gives the children of every sequence the parent id 0
FlattenSequencesToFirst(st, seqs, k) ==
    IF ~st.ok \/ k > Len(seqs) THEN st
    ELSE FlattenSequencesToFirst(
             FlattenChildren(FlattenParent(st, seqs[k]), seqs[k], 0, 2), seqs, k + 1)

RECURSIVE FlattenSequences(_, _, _)
\* the sequences from number k on; an exception stops the loop where it is
FlattenSequences(st, seqs, k) ==
    IF ~st.ok \/ k > Len(seqs) THEN st
    ELSE FlattenSequences(
             FlattenChildren(FlattenParent(st, seqs[k]), seqs[k], Len(st.from_sequences), 2),
             seqs, k + 1)

\* buttons = buttons_from_sequences + buttons
FlattenButtons(L) ==
    LET st == FlattenSequences([ok |-> TRUE, heap |-> L.heap,
                                buttons |-> DMGetAll(L.dynamic_map, "Button"),
                                from_sequences |-> <<>>],
                               L.button_sequences, 1)
    IN [ok |-> st.ok, heap |-> st.heap, buttons |-> st.from_sequences \o st.buttons]

----------------------------------------------------------------------------
(* Level.write: indices for everything that can be referenced *)

RECURSIVE AssignIdsFromOne(_, _, _)
\* an enumeration that numbers the entities of a list from 1
AssignIdsFromOne(st, pairs, n) ==
    IF ~st.ok \/ n > Len(pairs) THEN st
    ELSE IF Obj(st.heap, pairs[n].part).id # NoId THEN [st EXCEPT !.ok = FALSE]
    ELSE AssignIdsFromOne([st EXCEPT !.heap = HeapPut(st.heap, pairs[n].part,
                                                 [Obj(st.heap, pairs[n].part) EXCEPT !.id = n])],
                          pairs, n + 1)

RECURSIVE AssignIds(_, _, _)
\* for i, (_, p) in enumerate(pairs): assert not hasattr(p, '_id'); p._id = i
AssignIds(st, pairs, n) ==
    IF ~st.ok \/ n > Len(pairs) THEN st
    ELSE IF Obj(st.heap, pairs[n].part).id # NoId THEN [st EXCEPT !.ok = FALSE]
    ELSE AssignIds([st EXCEPT !.heap = HeapPut(st.heap, pairs[n].part,
                                          [Obj(st.heap, pairs[n].part) EXCEPT !.id = n - 1])],
                   pairs, n + 1)

RECURSIVE AssignEventIdsAnew(_, _, _)
\* a numbering that emits an event every time it is met
AssignEventIdsAnew(st, events, n) ==
    IF ~st.ok \/ n > Len(events) THEN st
    ELSE IF events[n].tag # "ref" THEN [st EXCEPT !.ok = FALSE]
    ELSE AssignEventIdsAnew(
             [st EXCEPT !.heap = HeapPut(st.heap, RefOf(events[n]),
                                    [Obj(st.heap, RefOf(events[n])) EXCEPT
                                        !.id = Len(st.block_events)]),
                        !.block_events = Append(st.block_events, RefOf(events[n]))],
             events, n + 1)

RECURSIVE AssignEventIds(_, _, _)
\* for e in b.events: an event that has an _id is skipped, the others are numbered
AssignEventIds(st, events, n) ==
    IF ~st.ok \/ n > Len(events) THEN st
    ELSE IF events[n].tag # "ref" THEN [st EXCEPT !.ok = FALSE]
    ELSE IF Obj(st.heap, RefOf(events[n])).id # NoId THEN AssignEventIds(st, events, n + 1)
    ELSE AssignEventIds(
             [st EXCEPT !.heap = HeapPut(st.heap, RefOf(events[n]),
                                    [Obj(st.heap, RefOf(events[n])) EXCEPT
                                        !.id = Len(st.block_events)]),
                        !.block_events = Append(st.block_events, RefOf(events[n]))],
             events, n + 1)

RECURSIVE AssignButtonIds(_, _, _)
\* create block events: each button gets its index, each event of it an event id
AssignButtonIds(st, buttons, n) ==
    IF ~st.ok \/ n > Len(buttons) THEN st
    ELSE IF Obj(st.heap, buttons[n].part).id # NoId THEN [st EXCEPT !.ok = FALSE]
    ELSE LET heap1 == HeapPut(st.heap, buttons[n].part,
                              [Obj(st.heap, buttons[n].part) EXCEPT !.id = n - 1])
         IN AssignButtonIds(
                AssignEventIds([st EXCEPT !.heap = heap1],
                               Obj(heap1, buttons[n].part).events, 1),
                buttons, n + 1)

\* the three loops, in order: moving platforms, bumpers, buttons with their events
AssignAll(heap, platforms, bumpers, buttons) ==
    AssignButtonIds(
        AssignIds(AssignIds([ok |-> TRUE, heap |-> heap, block_events |-> <<>>],
                            platforms, 1),
                  bumpers, 1),
        buttons, 1)

----------------------------------------------------------------------------
(* Level.write: the entity tables *)

\* write_uint8 of a bool
ByteOf(b) == IF b THEN 1 ELSE 0

\* the extended fields of a camera trigger whose zoom is not -1: none in the file
NoExt == [reset |-> 0, start_delay |-> 0, duration |-> 0, angle_or_fov |-> 0,
          single_use |-> 0, is_angle |-> 0]

\* MovingPlatform.write and Waypoint.write, with _position set to the map coordinate
WritePlatform(o, coord) ==
    [auto_start |-> IF o.auto_start THEN 2 ELSE 0,
     loop |-> IF o.loop = NoneInt THEN 0 ELSE o.loop + 1,
     clones |-> o.clones,
     full_block |-> ByteOf(o.full_block),
     waypoints |-> [n \in 1..Len(o.waypoints) |->
                      [pos |-> PointAdd(coord, o.waypoints[n].offset),
                       times |-> o.waypoints[n].times]]]

\* w._position = self._position + w.offset: the waypoints keep it after the write
PlatformWritten(o, coord) ==
    [o EXCEPT !.waypoints = [n \in 1..Len(o.waypoints) |->
                               [o.waypoints[n] EXCEPT
                                   !.pos = PosAt(PointAdd(coord, o.waypoints[n].offset))]]]

\* Bumper.write
WriteBumper(o, coord) == [enabled |-> ByteOf(o.enabled), sides |-> o.sides, pos |-> coord]

\* FallingPlatform.write, Checkpoint.write, Resizer.write
WritePlain(o, coord) == [fields |-> o.fields, pos |-> coord]

\* CameraTrigger.write: write_uint8(None) raises
CameraWriteOk(o) == o.zoom = -1 => o.ext.reset # "None" /\ o.ext.is_angle # "None"

WriteCamera(o, coord) ==
    [pos |-> coord, zoom |-> o.zoom, radius |-> o.radius,
     ext |-> IF o.zoom # -1 THEN NoExt
             ELSE [reset |-> ByteOf(o.ext.reset = "True"), start_delay |-> o.ext.start_delay,
                   duration |-> o.ext.duration, angle_or_fov |-> o.ext.angle_or_fov,
                   single_use |-> ByteOf(o.ext.single_use = "True"),
                   is_angle |-> ByteOf(o.ext.is_angle = "True")]]

\* Prism.write
WritePrism(o, coord) == [pos |-> coord, energy |-> o.energy]

\* x._id raises when x is an int or an object without the attribute
HasId(heap, t) == t.tag = "ref" /\ Obj(heap, RefOf(t)).id # NoId

\* the write method of the four event classes
EventWriteOk(heap, e) == e.type # EvAchievement => HasId(heap, e.target)

WriteEvent(heap, e) ==
    [type |-> e.type,
     id |-> IF e.type = EvAchievement THEN e.target.idx ELSE Obj(heap, RefOf(e.target)).id,
     payload |-> e.payload]

\* Button.write: the platform's index if self.moving_platform is truthy, else the position
ButtonWriteOk(heap, o) ==
    /\ Truthy(o.moving_platform) => HasId(heap, o.moving_platform)
    /\ \A n \in 1..Len(o.events) : HasId(heap, o.events[n])

\* WriteButton with the children count left out of the record
WriteButtonAlone(heap, o, coord) ==
    [visible |-> o.visible, disable_count |-> o.disable_count, mode |-> o.mode,
     parent_id |-> o.parent_id, sequence_in_order |-> ByteOf(o.sequence_in_order),
     children_count |-> 0,
     is_moving |-> ByteOf(Truthy(o.moving_platform)),
     platform_id |-> IF Truthy(o.moving_platform)
                     THEN Obj(heap, RefOf(o.moving_platform)).id ELSE 0,
     pos |-> IF Truthy(o.moving_platform) THEN <<0, 0, 0>> ELSE coord,
     events |-> [n \in 1..Len(o.events) |-> Obj(heap, RefOf(o.events[n])).id]]

WriteButton(heap, o, coord) ==
    [visible |-> o.visible, disable_count |-> o.disable_count, mode |-> o.mode,
     parent_id |-> o.parent_id, sequence_in_order |-> ByteOf(o.sequence_in_order),
     children_count |-> o.children_count,
     is_moving |-> ByteOf(Truthy(o.moving_platform)),
     platform_id |-> IF Truthy(o.moving_platform)
                     THEN Obj(heap, RefOf(o.moving_platform)).id ELSE 0,
     pos |-> IF Truthy(o.moving_platform) THEN <<0, 0, 0>> ELSE coord,
     events |-> [n \in 1..Len(o.events) |-> Obj(heap, RefOf(o.events[n])).id]]

\* HoloCube.write: self.moving_block_sync._id if self.moving_block_sync else -1
CubeWriteOk(heap, o) == Truthy(o.moving_block_sync) => HasId(heap, o.moving_block_sync)

WriteCube(heap, o, coord) ==
    [pos |-> coord, dark |-> o.dark, radius |-> o.radius,
     sync |-> IF Truthy(o.moving_block_sync)
              THEN Obj(heap, RefOf(o.moving_block_sync)).id ELSE -1,
     cube_pos |-> PointAdd(coord, o.offset_cube),
     key_events |-> o.key_events]

\* e._position = Point3D(*pos) of the entry whose write raised: del is not reached
LeavePosition(heap, pairs, bad) ==
    LET n == CHOOSE k \in bad : \A m \in bad : k <= m
    IN HeapPut(heap, pairs[n].part,
               [Obj(heap, pairs[n].part) EXCEPT !.pos = PosAt(pairs[n].coord)])

RECURSIVE WaypointsWritten(_, _, _)
\* the moving platforms after their table is written
WaypointsWritten(heap, platforms, n) ==
    IF n > Len(platforms) THEN heap
    ELSE WaypointsWritten(
             HeapPut(heap, platforms[n].part,
                     PlatformWritten(Obj(heap, platforms[n].part), platforms[n].coord)),
             platforms, n + 1)

\* the entries (from 1) of the block event table whose write raises
BadEvents(heap, events) == {n \in 1..Len(events) : ~EventWriteOk(heap, Obj(heap, events[n]))}

\* the entries of a table of parts whose write raises
BadParts(heap, pairs) ==
    {n \in 1..Len(pairs) :
        LET o == Obj(heap, pairs[n].part)
        IN CASE pairs[n].part.kind = "CameraTrigger" -> ~CameraWriteOk(o)
             [] pairs[n].part.kind = "Button" -> ~ButtonWriteOk(heap, o)
             [] pairs[n].part.kind \in {"HoloCube", "DarkCube"} -> ~CubeWriteOk(heap, o)
             [] OTHER -> FALSE}

\* the tables of the file, from the moving platforms to the resizers
FileTables(heap, platforms, bumpers, falling, checkpoints, cameras, prisms, events, buttons, cubes, resizers) ==
    LET at(pairs, n) == Obj(heap, pairs[n].part)
    IN [platforms |-> [n \in 1..Len(platforms) |->
                          WritePlatform(at(platforms, n), platforms[n].coord)],
        bumpers |-> [n \in 1..Len(bumpers) |-> WriteBumper(at(bumpers, n), bumpers[n].coord)],
        falling |-> [n \in 1..Len(falling) |-> WritePlain(at(falling, n), falling[n].coord)],
        checkpoints |-> [n \in 1..Len(checkpoints) |->
                            WritePlain(at(checkpoints, n), checkpoints[n].coord)],
        cameras |-> [n \in 1..Len(cameras) |-> WriteCamera(at(cameras, n), cameras[n].coord)],
        prisms |-> [n \in 1..Len(prisms) |-> WritePrism(at(prisms, n), prisms[n].coord)],
        fan_count |-> 0,
        events |-> [n \in 1..Len(events) |-> WriteEvent(heap, Obj(heap, events[n]))],
        buttons |-> [n \in 1..Len(buttons) |->
                        WriteButton(heap, at(buttons, n), buttons[n].coord)],
        cubes |-> [n \in 1..Len(cubes) |-> WriteCube(heap, at(cubes, n), cubes[n].coord)],
        resizers |-> [n \in 1..Len(resizers) |->
                         WritePlain(at(resizers, n), resizers[n].coord)],
        mini_block_count |-> 0]

\* how the writing of the tables ends: the first write that raises ends the call
\* with that entity's _position still set; heap1 has the waypoints as written
TablesOutcome(heap1, cameras, buttons, cubes, badCameras, badEvents, badButtons, badCubes, tables) ==
    IF badCameras # {} THEN [ok |-> FALSE, heap |-> LeavePosition(heap1, cameras, badCameras)]
    ELSE IF badEvents # {} THEN [ok |-> FALSE, heap |-> heap1]
    ELSE IF badButtons # {} THEN [ok |-> FALSE, heap |-> LeavePosition(heap1, buttons, badButtons)]
    ELSE IF badCubes # {} THEN [ok |-> FALSE, heap |-> LeavePosition(heap1, cubes, badCubes)]
    ELSE [ok |-> TRUE, heap |-> heap1, tables |-> tables]

\* the part of Level.write that writes the tables, with the get_all lists it uses
WriteTablesOf(heap, platforms, bumpers, falling, checkpoints, cameras, prisms, events, buttons, cubes, resizers) ==
    TablesOutcome(WaypointsWritten(heap, platforms, 1), cameras, buttons, cubes,
                  BadParts(heap, cameras), BadEvents(heap, events),
                  BadParts(heap, buttons), BadParts(heap, cubes),
                  FileTables(heap, platforms, bumpers, falling, checkpoints, cameras,
                             prisms, events, buttons, cubes, resizers))

WriteTables(heap, d, platforms, bumpers, buttons, events) ==
    WriteTablesOf(heap, platforms, bumpers, DMGetAll(d, "FallingPlatform"),
                  DMGetAll(d, "Checkpoint"), DMGetAll(d, "CameraTrigger"),
                  DMGetAll(d, "Prism"), events, buttons, DMGetAll(d, "HoloCube"),
                  DMGetAll(d, "Resizer"))

RECURSIVE DeleteIds(_, _, _)
\* del e._id for the objects from position n of the list on
DeleteIds(heap, refs, n) ==
    IF n > Len(refs) THEN heap
    ELSE DeleteIds(HeapPut(heap, refs[n], [Obj(heap, refs[n]) EXCEPT !.id = NoId]),
                   refs, n + 1)

----------------------------------------------------------------------------
(* Level.write *)

\* the header fields computed from the tight size
HeaderOf(L, size) ==
    [meta |-> L.meta,
     times |-> L.times,
     prisms_count |-> Len(DMGetAll(L.dynamic_map, "Prism")),
     size |-> size,
     us1 |-> size[1] + size[2],
     us2 |-> size[1] + size[2] + 2 * size[3],
     mmw |-> (size[1] + size[2] + 9) \div 10,
     mml |-> (size[1] + size[2] + 2 * size[3] + 9) \div 10,
     ub1 |-> 10,
     us5 |-> size[2] - 1,
     us6 |-> 0,
     spawn |-> L.spawn_point,
     zoom |-> L.zoom,
     angle_or_fov |-> IF L.zoom < 0 THEN L.angle_or_fov ELSE 0,
     is_angle |-> IF L.zoom < 0 THEN ByteOf(L.is_angle) ELSE 0,
     exit |-> L.exit_point]

\* the call ended by an exception: nothing written, the Level as it was left
\* what a call leaves at the path when it does not reach open(path, 'wb')
NotWritten == <<>>

\* a failure in a writer that opens the file before it encodes: the file is empty
WriteFailedAfterOpen(L, heap) ==
    [ok |-> FALSE, file |-> [truncated |-> TRUE], level |-> [L EXCEPT !.heap = heap]]

\* an exception before line 453: nothing is written
WriteFailed(L, heap) == [ok |-> FALSE, file |-> NotWritten, level |-> [L EXCEPT !.heap = heap]]

\* lines 453 to 460: the file is written, then the ids are deleted
WriteDone(L, head, minimap, collision, body, withIds, block_events) ==
    IF ~body.ok THEN WriteFailed(L, body.heap)
    ELSE [ok |-> TRUE,
          file |-> [k \in DOMAIN head \cup DOMAIN body.tables \cup {"minimap", "collision"} |->
                       CASE k \in DOMAIN head -> head[k]
                         [] k = "minimap" -> BCWrite(minimap)
                         [] k = "collision" -> BCWrite(collision)
                         [] OTHER -> body.tables[k]],
          level |-> [L EXCEPT !.heap = DeleteIds(DeleteIds(body.heap, withIds, 1),
                                                 block_events, 1)]]

\* lines 332 to 451: the header with the size taken from the static map, the
\* minimap made if there is none ("if not self._legacy_minimap" is never true of a
\* BitCube object), the two shape asserts, then the tables
WriteBody(L, platforms, bumpers, buttons, ids, head) ==
    LET minimap == IF L.legacy_minimap = NoCube THEN BCZeros(<<head.mmw, head.mml, 1>>)
                   ELSE L.legacy_minimap
        collision == ToCollisionMap(L.static_map)
    IN IF minimap.shape # <<head.mmw, head.mml, 1>> \/ collision.shape # head.size
       THEN WriteFailed([L EXCEPT !.legacy_minimap = minimap], ids.heap)
       ELSE WriteDone([L EXCEPT !.legacy_minimap = minimap], head, minimap, collision,
                      WriteTables(ids.heap, L.dynamic_map, platforms, bumpers, buttons,
                                  ids.block_events),
                      [n \in 1..Len(platforms \o bumpers \o buttons) |->
                          (platforms \o bumpers \o buttons)[n].part],
                      ids.block_events)

\* lines 307 to 330: the ids
WriteFlat(L, platforms, bumpers, buttons, ids) ==
    IF ~ids.ok \/ ~StaticSizeOk(L.static_map) THEN WriteFailed(L, ids.heap)
    ELSE WriteBody(L, platforms, bumpers, buttons, ids,
                   HeaderOf(L, StaticSize(L.static_map)))

\* lines 268 to 305: the lists of referenced parts, the sequences flattened
WriteLists(L, platforms, bumpers, flat) ==
    IF ~flat.ok THEN WriteFailed(L, flat.heap)
    ELSE WriteFlat(L, platforms, bumpers, flat.buttons,
                   AssignAll(flat.heap, platforms, bumpers, flat.buttons))

\* Level.write: whether it returns, the file it writes, and the Level afterwards
WriteLevel(L) ==
    WriteLists(L, DMGetAll(L.dynamic_map, "MovingPlatform"),
               DMGetAll(L.dynamic_map, "Bumper"), FlattenButtons(L))

----------------------------------------------------------------------------
(* Level.__eq__ *)

\* a cell of the dynamic map with each part replaced by the value __eq__ compares
CellVal(heap, cell) ==
    [kind |-> cell.kind, parts |-> [n \in 1..Len(cell.parts) |-> ValOf(heap, cell.parts[n])]]

\* the fields the generated __eq__ of Level compares, as values: np.all(a == b) on
\* the maps (arrays of one shape here), list equality on the button sequences
LevelVal(L) ==
    [meta |-> L.meta,
     times |-> L.times,
     zoom |-> L.zoom,
     angle_or_fov |-> L.angle_or_fov,
     is_angle |-> L.is_angle,
     spawn_point |-> L.spawn_point,
     exit_point |-> L.exit_point,
     legacy_minimap |-> L.legacy_minimap,
     static_map |-> L.static_map,
     dynamic_map |-> [shape |-> L.dynamic_map.map.shape,
                      offset |-> L.dynamic_map.offset,
                      cells |-> [i \in DOMAIN L.dynamic_map.map.cells |->
                                    CellVal(L.heap, L.dynamic_map.map.cells[i])]],
     button_sequences |->
         [k \in 1..Len(L.button_sequences) |->
             [buttons |-> [n \in 1..Len(L.button_sequences[k].buttons) |->
                              ValOf(L.heap, L.button_sequences[k].buttons[n])],
              sequence_in_order |-> L.button_sequences[k].sequence_in_order,
              events |-> [n \in 1..Len(L.button_sequences[k].events) |->
                             ValOf(L.heap, RefOf(L.button_sequences[k].events[n]))]]]]

\* L == M for two Levels
LevelEq(L, M) == LevelVal(L) = LevelVal(M)

----------------------------------------------------------------------------
(* The level files under test *)

\* how far a redundant header field is set off its closed form
MaxSkew == 1

\* how many times Level.write is called on one Level
MaxWrites == 2

\* how many blocks are stored into the static map of one Level
MaxEdits == 2

P0 == <<0, 0, 0>>

P1 == <<1, 0, 0>>

\* a file with the header of a map of the given size and collision cells, no entities
EmptyFile(size, ones) ==
    [meta |-> [id |-> 7, name |-> "level", theme |-> 0, music_java |-> 0, music |-> 0],
     times |-> <<1, 2, 3, 4, 5>>,
     prisms_count |-> 0,
     size |-> size,
     us1 |-> size[1] + size[2],
     us2 |-> size[1] + size[2] + 2 * size[3],
     mmw |-> (size[1] + size[2] + 9) \div 10,
     mml |-> (size[1] + size[2] + 2 * size[3] + 9) \div 10,
     ub1 |-> 10,
     us5 |-> size[2] - 1,
     us6 |-> 0,
     minimap |-> BCWrite(BCZeros(<<(size[1] + size[2] + 9) \div 10,
                                   (size[1] + size[2] + 2 * size[3] + 9) \div 10, 1>>)),
     collision |-> BCWrite(BitCubeOf(size, ones)),
     spawn |-> <<0, 0, 1>>,
     zoom |-> -1,
     angle_or_fov |-> 22,
     is_angle |-> 1,
     exit |-> <<1, 0, 1>>,
     platforms |-> <<>>, bumpers |-> <<>>, falling |-> <<>>, checkpoints |-> <<>>,
     cameras |-> <<>>, prisms |-> <<>>, fan_count |-> 0, events |-> <<>>,
     buttons |-> <<>>, cubes |-> <<>>, resizers |-> <<>>, mini_block_count |-> 0]

\* table entries as they stand in a file
FilePlatform(p, travel) ==
    [auto_start |-> 2, loop |-> 0, clones |-> -1, full_block |-> 1,
     waypoints |-> <<[pos |-> p, times |-> <<travel, 0>>],
                     [pos |-> PointAdd(p, <<0, 0, 1>>), times |-> <<travel, 5>>]>>]

FileBumper(p, enabled) == [enabled |-> enabled, sides |-> <<1, 0, 0, 0>>, pos |-> p]

FileButton(p, events) ==
    [visible |-> 1, disable_count |-> 0, mode |-> ModeStayDown, parent_id |-> -1,
     sequence_in_order |-> 0, children_count |-> 0, is_moving |-> 0, platform_id |-> 0,
     pos |-> p, events |-> events]

FileCube(p, dark, sync) ==
    [pos |-> p, dark |-> dark, radius |-> IF dark THEN <<1, 1>> ELSE <<0, 0>>,
     sync |-> sync, cube_pos |-> PointAdd(p, <<0, 0, 1>>), key_events |-> <<>>]

\* the 2 x 1 x 1 map with both cells solid
SmallFile == EmptyFile(<<2, 1, 1>>, CellsOf(<<2, 1, 1>>))

\* files that differ in the seven redundant header fields, on maps whose solid
\* cells do or do not reach the far corner of the header size
HeaderFiles ==
    {[EmptyFile(size, IF tight THEN CellsOf(size) ELSE {P0}) EXCEPT
         !.us1 = @ + d[1], !.us2 = @ + d[2], !.mmw = @ + d[3], !.mml = @ + d[4],
         !.ub1 = @ + d[5], !.us5 = @ + d[6], !.us6 = @ + d[7],
         !.falling = <<[fields |-> <<20>>, pos |-> P0]>>,
         !.prisms = <<[pos |-> P1, energy |-> 1]>>,
         !.prisms_count = 1] :
        size \in {<<2, 1, 1>>, <<1, 2, 2>>}, tight \in BOOLEAN,
        d \in [1..7 -> 0..MaxSkew]}

\* files with references: one block event of any type and target index, held by the
\* last button; a middle button fixed or riding a platform; a cube synced or not
ReferenceFiles ==
    {[SmallFile EXCEPT
         !.platforms = SubSeq(<<FilePlatform(P0, 10), FilePlatform(P1, 20)>>, 1, np),
         !.bumpers = <<FileBumper(P0, 1), FileBumper(P1, 0)>>,
         !.events = <<[type |-> et, id |-> ei, payload |-> ep]>>,
         !.buttons = <<FileButton(P0, <<>>),
                       IF rides = -1 THEN [FileButton(P1, <<>>) EXCEPT !.visible = 0]
                       ELSE [FileButton(P0, <<>>) EXCEPT !.is_moving = 1,
                                                         !.platform_id = rides],
                       [FileButton(P1, <<0>>) EXCEPT !.mode = ModeToggle]>>,
         !.cubes = IF sync = -2 THEN <<>> ELSE <<FileCube(P0, dark, sync)>>] :
        np \in 1..2,
        et \in {EvPlatform, EvBumper, EvAchievement, EvButton},
        ei \in {0, 1, 3}, ep \in {0, 1},
        rides \in {-1, 0, 1}, sync \in {-2, -1, 0, 1}, dark \in BOOLEAN}

\* files with button sequences: a parent and up to two buttons naming it
SequenceFiles ==
    {[SmallFile EXCEPT
         !.events = <<[type |-> EvAchievement, id |-> 4, payload |-> 0]>>,
         !.buttons = <<[FileButton(P1, <<0>>) EXCEPT !.children_count = cc,
                                                     !.mode = mode,
                                                     !.sequence_in_order = 1],
                       [FileButton(P0, <<>>) EXCEPT !.parent_id = pa],
                       [FileButton(p, <<>>) EXCEPT !.parent_id = pb,
                                                   !.disable_count = 1]>>] :
        cc \in 0..2, mode \in {ModeStayDown, ModeToggle},
        pa \in {-1, 0}, pb \in {-1, 0}, p \in {P0, P1}}

\* files with two button sequences behind an ordinary button: the first of one
\* child, the second of one or two children
TwoSequenceFiles ==
    {[SmallFile EXCEPT
         !.events = <<[type |-> EvAchievement, id |-> 4, payload |-> 0],
                      [type |-> EvAchievement, id |-> 5, payload |-> 0]>>,
         !.buttons = <<[FileButton(P0, ev) EXCEPT !.mode = ModeToggle],
                       [FileButton(P1, <<0>>) EXCEPT !.children_count = 1],
                       [FileButton(P0, <<>>) EXCEPT !.parent_id = 1, !.disable_count = dc],
                       [FileButton(P1, <<1>>) EXCEPT !.children_count = cc,
                                                     !.sequence_in_order = sio],
                       [FileButton(P0, <<>>) EXCEPT !.parent_id = 3],
                       [FileButton(p, <<>>) EXCEPT !.parent_id = pb,
                                                   !.disable_count = 2]>>] :
        ev \in {<<>>, <<1>>}, dc \in 0..1, cc \in 1..2, sio \in 0..1,
        pb \in {-1, 3}, p \in {P0, P1}}

\* files with two sequences of one child each and an ordinary STAY_DOWN button
\* without events: buttons that can be equal field by field, in either cell
EqualButtonFiles ==
    {[SmallFile EXCEPT
         !.events = <<[type |-> EvAchievement, id |-> 4, payload |-> 0],
                      [type |-> EvAchievement, id |-> 5, payload |-> 0]>>,
         !.buttons = <<[FileButton(P0, <<0>>) EXCEPT !.children_count = 1],
                       [FileButton(P1, <<1>>) EXCEPT !.children_count = 1],
                       [FileButton(pf, <<>>) EXCEPT !.visible = vf],
                       [FileButton(pa, <<>>) EXCEPT !.parent_id = 0],
                       [FileButton(pb, <<>>) EXCEPT !.parent_id = 1,
                                                    !.disable_count = dc]>>] :
        pf \in {P0, P1}, vf \in 0..1, pa \in {P0, P1}, pb \in {P0, P1}, dc \in 0..1}

\* files with three events and two buttons whose event lists share events, repeat
\* one, leave one out, or meet them in another order than the event table has
SharedEventFiles ==
    {[SmallFile EXCEPT
         !.events = <<[type |-> EvAchievement, id |-> 4, payload |-> 0],
                      [type |-> EvAchievement, id |-> 5, payload |-> 0],
                      [type |-> EvAchievement, id |-> 6, payload |-> 1]>>,
         !.buttons = <<[FileButton(P0, ea) EXCEPT !.mode = ModeToggle],
                       [FileButton(P1, eb) EXCEPT !.mode = ModeStayUp]>>] :
        ea \in {<<2, 0>>, <<1, 1>>, <<0, 2, 0>>}, eb \in {<<0>>, <<2, 1>>, <<>>}}

\* files whose solid cells do not reach the far corner of the header size, with
\* parts that Level.write numbers
LooseFiles ==
    {[EmptyFile(size, {P0}) EXCEPT
         !.platforms = IF np = 1 THEN <<FilePlatform(P0, 10)>> ELSE <<>>,
         !.bumpers = IF nb = 1 THEN <<FileBumper(P0, 1)>> ELSE <<>>,
         !.events = <<[type |-> EvAchievement, id |-> 4, payload |-> 0]>>,
         !.buttons = <<[FileButton(P0, <<0>>) EXCEPT !.mode = ModeToggle]>>] :
        size \in {<<2, 1, 1>>, <<1, 2, 2>>, <<1, 1, 1>>}, np \in 0..1, nb \in 0..1}

\* files on maps that do or do not reach the far corner of the header size, with
\* one bumper
MapFiles ==
    {[EmptyFile(size, ones) EXCEPT !.bumpers = <<FileBumper(P0, 1)>>] :
        size \in {<<2, 1, 1>>}, ones \in {CellsOf(<<2, 1, 1>>), {P0}}}

\* the indices at which blocks are stored and read
MapCoords == {<<0, 0, 0>>, <<1, 1, 0>>, <<0, 0, 4>>}

\* the blocks stored: a full one, one without collision, the empty one
MapBlocks == {BlockFull, [collision |-> FALSE, visible |-> TRUE], BlockEmpty}

\* files with two moving platforms anchored at either cell, looping or not
PlatformFiles ==
    {[SmallFile EXCEPT
         !.platforms = <<[FilePlatform(p, 10) EXCEPT !.loop = lp, !.auto_start = au],
                         [FilePlatform(q, 7) EXCEPT !.loop = lq]>>] :
        p \in {P0, P1}, q \in {P0, P1}, lp \in 0..2, lq \in 0..1, au \in {0, 2}}

FileCamera(p, zoom) ==
    [pos |-> p, zoom |-> zoom, radius |-> <<1, 1>>,
     ext |-> IF zoom = -1 THEN [NoExt EXCEPT !.reset = 1, !.duration = 3] ELSE NoExt]

\* a file that Level.read accepts, with an entry in every table that has a check
CheckedFile ==
    [SmallFile EXCEPT
        !.prisms_count = 1,
        !.platforms = <<FilePlatform(P0, 10)>>,
        !.cameras = <<FileCamera(P1, 0)>>,
        !.prisms = <<[pos |-> P1, energy |-> 1]>>,
        !.events = <<[type |-> EvAchievement, id |-> 4, payload |-> 0]>>,
        !.buttons = <<[FileButton(P1, <<0>>) EXCEPT !.children_count = 1],
                      [FileButton(P0, <<>>) EXCEPT !.parent_id = 0]>>]

\* a file with one checked field set to the value numbered c.value
SetField(f, c) ==
    LET TimesTried ==
            <<<<1, 2, 3, 4, 5>>, <<1, 2, 2, 4, 5>>, <<2, 1, 3, 4, 5>>, <<1, 2, 3, 5, 4>>,
              <<1, 2, 3, 4, 4>>, <<1, 1, 3, 4, 5>>, <<1, 2, 4, 3, 5>>>>
    IN
    CASE c.field = "times" -> [f EXCEPT !.times = TimesTried[c.value]]
      [] c.field = "prisms_count" -> [f EXCEPT !.prisms_count = c.value]
      [] c.field = "energy" -> [f EXCEPT !.prisms[1].energy = c.value]
      [] c.field = "children_count" -> [f EXCEPT !.buttons[1].children_count = c.value]
      [] c.field = "clones" -> [f EXCEPT !.platforms[1].clones = c.value]
      [] c.field = "zoom" -> [f EXCEPT !.cameras[1] = FileCamera(P1, c.value)]
      [] c.field = "spawn_z" -> [f EXCEPT !.spawn[3] = c.value]
      [] c.field = "fan_count" -> [f EXCEPT !.fan_count = c.value]
      [] c.field = "mini_block_count" -> [f EXCEPT !.mini_block_count = c.value]
      [] c.field = "child_children" -> [f EXCEPT !.buttons[2].children_count = c.value]
      [] c.field = "child_mode" -> [f EXCEPT !.buttons[2].mode = c.value]
      [] c.field = "child_events" -> [f EXCEPT !.buttons[2].events = [n \in 1..c.value |-> 0]]
      [] c.field = "child_parent" -> [f EXCEPT !.buttons[2].parent_id = c.value]

\* files that differ from an accepted file in up to two checked fields, the
\* values tried for a field holding valid and invalid ones
CheckedFiles ==
    LET FieldValues ==
            {[field |-> "times", value |-> v] : v \in 1..7}
            \cup {[field |-> x, value |-> v] :
                    x \in {"prisms_count", "energy", "children_count"}, v \in 0..2}
            \cup {[field |-> "clones", value |-> v] : v \in {-2, -1, 0}}
            \cup {[field |-> "zoom", value |-> v] : v \in {-2, -1, 0, 6, 7}}
            \cup {[field |-> "spawn_z", value |-> v] : v \in {-21, -20, 0}}
            \cup {[field |-> x, value |-> v] :
                    x \in {"fan_count", "mini_block_count", "child_children",
                           "child_events"},
                    v \in 0..1}
            \cup {[field |-> "child_mode", value |-> v] :
                    v \in {ModeToggle, ModeStayUp, ModeStayDown}}
            \cup {[field |-> "child_parent", value |-> v] : v \in {-1, 0}}
    IN {SetField(SetField(CheckedFile, a), b) : a, b \in FieldValues}

\* files whose on-disk indices are valid, negative, or past the end of the table
\* they point into: two platforms, two bumpers, one event, three buttons, one cube
IndexFiles ==
    {[SmallFile EXCEPT
         !.platforms = <<FilePlatform(P0, 10), FilePlatform(P1, 20)>>,
         !.bumpers = <<FileBumper(P0, 1), FileBumper(P1, 0)>>,
         !.events = <<[type |-> et, id |-> ei, payload |-> 0]>>,
         !.buttons = <<[FileButton(P0, <<>>) EXCEPT !.parent_id = pa],
                       [FileButton(P1, <<ev>>) EXCEPT !.mode = ModeToggle],
                       [FileButton(P0, <<>>) EXCEPT !.is_moving = 1, !.platform_id = rides]>>,
         !.cubes = <<FileCube(P0, FALSE, sync)>>] :
        et \in {EvPlatform, EvBumper, EvButton}, ei \in {-3, -1, 0, 2},
        pa \in {-1, 2, 5}, ev \in {0, 1}, rides \in {-3, -1, 1, 2}, sync \in {-3, -1, 1, 2}}

----------------------------------------------------------------------------
(* Reading a file, writing the Level, reading the written file *)

LVInit ==
    /\ \/ file \in HeaderFiles
       \/ file \in ReferenceFiles
       \/ file \in SequenceFiles
       \/ file \in TwoSequenceFiles
       \/ file \in CheckedFiles
       \/ file \in IndexFiles
       \/ file \in EqualButtonFiles
       \/ file \in SharedEventFiles
       \/ file \in LooseFiles
       \/ file \in PlatformFiles
    /\ lvl = NoLevel
    /\ lpc = "start"
    /\ outs = <<>>
    /\ reread = [done |-> FALSE]
    /\ disk \in {NotWritten, SmallFile}
    /\ edits = 0
    /\ got = [item |-> <<>>]
    /\ DMIdle
    /\ BCIdle
    /\ ESIdle

\* lvl = Level.read(file): an exception leaves no Level
LVRead ==
    /\ lpc = "start"
    /\ \E r \in {ReadLevel(file)} :
           /\ lpc' = IF r.ok THEN "loaded" ELSE "rejected"
           /\ lvl' = r.level
    /\ UNCHANGED <<file, outs, reread, disk, edits, got, dmVars, bcVars, esVars>>

\* lvl.write(path)
LVWrite ==
    /\ lpc = "loaded"
    /\ Len(outs) < MaxWrites
    /\ \E w \in {WriteLevel(lvl)} :
           /\ lvl' = w.level
           /\ outs' = Append(outs, [ok |-> w.ok, file |-> w.file])
           /\ disk' = IF w.file = NotWritten THEN disk ELSE w.file
    /\ reread' = [done |-> FALSE]
    /\ UNCHANGED <<file, lpc, edits, got, dmVars, bcVars, esVars>>

\* Level.read(path) of the file the last call of write completed
LVReadBack ==
    /\ lpc = "loaded"
    /\ outs # <<>>
    /\ outs[Len(outs)].ok
    /\ ~reread.done
    /\ \E r \in {ReadLevel(outs[Len(outs)].file)} :
           reread' = [done |-> TRUE, ok |-> r.ok, level |-> r.level]
    /\ UNCHANGED <<file, lvl, lpc, outs, disk, edits, got, dmVars, bcVars, esVars>>

LVNext == LVRead \/ LVWrite \/ LVReadBack

SpecLevel == LVInit /\ [][LVNext]_vars

\* level.button_sequences[k].events = []: the caller gives a sequence of the loaded
\* Level a new, empty event list; the parent button keeps the list it was read with
LVDetachEvents ==
    /\ lpc = "loaded"
    /\ outs = <<>>
    /\ \E k \in 1..Len(lvl.button_sequences) :
           /\ lvl.button_sequences[k].events # <<>>
           /\ lvl' = [lvl EXCEPT !.button_sequences[k].events = <<>>]
    /\ UNCHANGED <<file, lpc, outs, reread, disk, edits, got, dmVars, bcVars, esVars>>

LVEditNext == LVRead \/ LVDetachEvents \/ LVWrite \/ LVReadBack

SpecLevelEdited == LVInit /\ [][LVEditNext]_vars

\* a Level read from a file whose static map is then edited and written
LVMapInit ==
    /\ file \in MapFiles
    /\ lvl = NoLevel
    /\ lpc = "start"
    /\ outs = <<>>
    /\ reread = [done |-> FALSE]
    /\ disk = NotWritten
    /\ edits = 0
    /\ got = [item |-> <<>>]
    /\ DMIdle
    /\ BCIdle
    /\ ESIdle

\* level[key] = block: Level.__setitem__ hands a Block to StaticMap.__setitem__
LVSetBlock ==
    /\ lpc = "loaded"
    /\ edits < MaxEdits
    /\ \E key \in MapCoords, value \in MapBlocks :
           lvl' = [lvl EXCEPT !.static_map = StaticSetItem(lvl.static_map, key, value)]
    /\ edits' = edits + 1
    /\ UNCHANGED <<file, lpc, outs, reread, disk, got, dmVars, bcVars, esVars>>

\* level.static_map[item]
LVGetBlock ==
    /\ lpc = "loaded"
    /\ \E item \in MapCoords :
           got' = [item |-> item, value |-> StaticGetItem(lvl.static_map, item)]
    /\ UNCHANGED <<file, lvl, lpc, outs, reread, disk, edits, dmVars, bcVars, esVars>>

LVMapNext == LVRead \/ LVSetBlock \/ LVGetBlock \/ LVWrite \/ LVReadBack

SpecLevelMap == LVMapInit /\ [][LVMapNext]_vars

----------------------------------------------------------------------------
(* Claims about Level.read and Level.write *)

\* C1: for a Level read from a file, reading the file that Level.write produced
\* from it gives a Level equal to it, field by field.
C1_ReadWriteRead ==
    (Len(outs) = 1 /\ reread.done) => reread.ok /\ LevelEq(reread.level, lvl)

\* C2: every one of any number of Level.write calls on one Level returns, and
\* the file of every call decodes to a Level equal to that Level.
C2_RepeatedWrites ==
    \A n \in 1..Len(outs) :
        /\ outs[n].ok
        /\ ReadLevel(outs[n].file).ok
        /\ LevelEq(ReadLevel(outs[n].file).level, lvl)

\* C9: Level.read returns a Level only if each of the seven redundant header
\* fields has its closed-form value of the size: x+y, x+y+2z, (x+y+9)//10,
\* (x+y+2z+9)//10, 10, y-1 and 0.
C9_RedundantFieldsChecked ==
    lpc = "loaded" =>
        LET x == file.size[1]
            y == file.size[2]
            z == file.size[3]
        IN <<file.us1, file.us2, file.mmw, file.mml, file.ub1, file.us5, file.us6>>
           = <<x + y, x + y + 2 * z, (x + y + 9) \div 10, (x + y + 2 * z + 9) \div 10,
               10, y - 1, 0>>

\* a file that differs from one Level.read accepts in the y-1 field alone is rejected
C9_Witness ==
    /\ lpc = "rejected"
    /\ file.us5 # file.size[2] - 1
    /\ ReadLevel([file EXCEPT !.us5 = file.size[2] - 1]).ok

\* C10: after Level.read, every block event that targets a moving platform, a
\* bumper or a button with a valid on-disk index i >= 0 refers to the object at
\* position i of the decoded table of that class, and the button that lists the
\* event refers to that event object.
C10_EventTargetsResolved ==
    lpc = "loaded" =>
        /\ \A n \in 1..Len(file.events) :
               (file.events[n].type # EvAchievement /\ file.events[n].id >= 0) =>
                   /\ file.events[n].id < Len(lvl.heap[EventTargetKind(file.events[n].type)])
                   /\ lvl.heap.BlockEvent[n].target
                        = RObj(Ref(EventTargetKind(file.events[n].type), file.events[n].id))
        /\ \A b \in 1..Len(file.buttons) :
               \A k \in 1..Len(file.buttons[b].events) :
                   lvl.heap.Button[b].events[k]
                     = RObj(Ref("BlockEvent", file.buttons[b].events[k]))

\* a decoded file whose event targets index 0 of a table of two moving platforms
C10_Witness ==
    /\ lpc = "loaded"
    /\ Len(file.platforms) = 2
    /\ file.events[1].type = EvPlatform
    /\ file.events[1].id = 0
    /\ file.buttons[3].events = <<0>>
    /\ RefOf(lvl.heap.Button[3].events[1]) = Ref("BlockEvent", 0)
    /\ RefOf(lvl.heap.BlockEvent[1].target) = Ref("MovingPlatform", 0)

\* everything Level.read checks in a file apart from the platform ids of its buttons
ReadOkButPlatformIds(f) ==
    /\ HeaderOk(f)
    /\ TablesOk(f)
    /\ \A n \in 1..Len(f.events) : EventResolveOk(RawHeap(f), RawHeap(f).BlockEvent[n])
    /\ \A n \in 1..Len(f.buttons) :
           \A k \in 1..Len(f.buttons[n].events) : f.buttons[n].events[k] < Len(f.events)
    /\ \A n \in 1..Len(f.cubes) : CubeResolveOk(RawHeap(f), RawHeap(f).HoloCube[n])
    /\ SequencesOk(RawHeap(f).Button)
    /\ StaticSizeOk(ToStaticMap(BCRead(f.collision, f.size)))

\* C11: a button stored as is_moving with a valid platform id k >= 0 (0 included)
\* is decoded with a reference to the MovingPlatform at index k and stands in the
\* dynamic map at that platform's position plus (0,0,1).
C11_ButtonPlatformResolved ==
    (/\ lpc # "start"
     /\ ReadOkButPlatformIds(file)
     /\ \A b \in 1..Len(file.buttons) :
            file.buttons[b].is_moving # 0 =>
                file.buttons[b].platform_id \in 0..(Len(file.platforms) - 1))
    => /\ lpc = "loaded"
       /\ \A b \in 1..Len(file.buttons) :
              file.buttons[b].is_moving # 0 =>
                  /\ lvl.heap.Button[b].moving_platform
                       = RObj(Ref("MovingPlatform", file.buttons[b].platform_id))
                  /\ \E n \in 1..Len(DMGetAll(lvl.dynamic_map, "Button")) :
                         DMGetAll(lvl.dynamic_map, "Button")[n]
                           = [coord |-> PointAdd(file.platforms[file.buttons[b].platform_id + 1]
                                                     .waypoints[1].pos, <<0, 0, 1>>),
                              part |-> Ref("Button", b - 1)]

\* C12: a decoded HoloCube or DarkCube is unsynced exactly when its on-disk sync
\* id is -1; for a sync id k >= 0 (0 included) it references the MovingPlatform
\* at index k, and Level.write stores the table index of that platform.
C12_CubeSyncResolved ==
    lpc = "loaded" =>
        \A n \in 1..Len(file.cubes) :
            /\ lvl.heap.HoloCube[n].moving_block_sync = RNone <=> file.cubes[n].sync = -1
            /\ file.cubes[n].sync >= 0 =>
                   /\ lvl.heap.HoloCube[n].moving_block_sync
                        = RObj(Ref("MovingPlatform", file.cubes[n].sync))
                   /\ \A w \in 1..Len(outs) :
                          outs[w].ok =>
                              \E c \in 1..Len(outs[w].file.cubes) :
                                  /\ outs[w].file.cubes[c].sync >= 0
                                  /\ outs[w].file.platforms[outs[w].file.cubes[c].sync + 1]
                                       = file.platforms[file.cubes[n].sync + 1]

Malformed(f) ==
    \/ \E n \in 1..4 : f.times[n] >= f.times[n + 1]
    \/ f.prisms_count # Len(f.prisms)
    \/ \E n \in 1..Len(f.platforms) : f.platforms[n].clones # -1
    \/ \E n \in 1..Len(f.prisms) : f.prisms[n].energy # 1
    \/ \E n \in 1..Len(f.cameras) : f.cameras[n].zoom < -1 \/ f.cameras[n].zoom > 6
    \/ f.spawn[3] < -20
    \/ f.fan_count # 0
    \/ f.mini_block_count # 0
    \/ \E n \in 1..Len(f.buttons) :
           /\ f.buttons[n].parent_id >= 0
           /\ \/ f.buttons[n].mode # ModeStayDown
              \/ f.buttons[n].events # <<>>
              \/ f.buttons[n].children_count # 0
    \/ \E n \in 1..Len(f.buttons) :
           /\ f.buttons[n].children_count > 0
           /\ f.buttons[n].children_count
                # Cardinality({m \in 1..Len(f.buttons) : f.buttons[m].parent_id = n - 1})

\* C14: Level.read raises and returns no Level when the thresholds are not
\* strictly increasing, the two prism counts differ, a platform's clones field is
\* not -1, a prism's energy is not 1, a camera trigger's zoom is outside [-1, 6],
\* spawn z is below -20, the fan or mini-block count is not 0, a button with a
\* parent is not STAY_DOWN or has events or children, or a positive
\* children_count differs from the number of buttons naming that button.
C14_MalformedRejected ==
    (lpc # "start" /\ Malformed(file)) => (lpc = "rejected" /\ lvl = NoLevel)

\* a file rejected for its camera zoom of 7 alone
C14_Witness ==
    /\ lpc = "rejected"
    /\ lvl = NoLevel
    /\ Len(file.cameras) = 1
    /\ file.cameras[1].zoom = 7
    /\ Malformed(file)
    /\ ~Malformed([file EXCEPT !.cameras[1].zoom = 6])
    /\ ReadLevel([file EXCEPT !.cameras[1].zoom = 6]).ok

\* an on-disk index of the file names no entry of the table it points into
DanglingIndex(f) ==
    LET names(i, table) == i \in 0..(Len(table) - 1)
    IN \/ \E n \in 1..Len(f.events) :
              \/ f.events[n].type = EvPlatform /\ ~names(f.events[n].id, f.platforms)
              \/ f.events[n].type = EvBumper /\ ~names(f.events[n].id, f.bumpers)
              \/ f.events[n].type = EvButton /\ ~names(f.events[n].id, f.buttons)
       \/ \E n \in 1..Len(f.buttons) :
              \/ f.buttons[n].is_moving # 0 /\ ~names(f.buttons[n].platform_id, f.platforms)
              \/ \E k \in 1..Len(f.buttons[n].events) :
                     ~names(f.buttons[n].events[k], f.events)
              \/ f.buttons[n].parent_id # -1 /\ ~names(f.buttons[n].parent_id, f.buttons)
       \/ \E n \in 1..Len(f.cubes) :
              f.cubes[n].sync # -1 /\ ~names(f.cubes[n].sync, f.platforms)

\* C15: Level.read raises whenever a block event's target id, a button's
\* platform id, event index or parent id, or a cube's sync id is negative (other
\* than the -1 marker) or not below the length of its table.
C15_DanglingIndexRejected ==
    (lpc # "start" /\ DanglingIndex(file)) => lpc = "rejected"

\* C16: a call of Level.write that raises while encoding leaves the destination
\* as it was: no file is created and an existing file keeps its content.
C16_FailedWriteLeavesFile ==
    [][(LVWrite /\ ~outs'[Len(outs')].ok) => disk' = disk]_vars

\* a call that raised on its way through the button sequences, the file that
\* stood at the path before the call still there
C16_Witness ==
    /\ lpc = "loaded"
    /\ Len(outs) = 1
    /\ ~outs[1].ok
    /\ outs[1].file = NotWritten
    /\ lvl.button_sequences # <<>>
    /\ disk = SmallFile

\* a sequence of the Level has a member that is not STAY_DOWN, or that holds
\* events other than the sequence's own event list
UnfitMember(L) ==
    \E k \in 1..Len(L.button_sequences) :
        \E n \in 1..Len(L.button_sequences[k].buttons) :
            LET b == Obj(L.heap, L.button_sequences[k].buttons[n])
            IN \/ b.mode # ModeStayDown
               \/ b.events # <<>> /\ b.events # L.button_sequences[k].events

\* C17: Level.write raises and writes no file whenever a member of a button
\* sequence is not STAY_DOWN or has events of its own; it does not replace or
\* drop such events.
C17_UnfitSequenceRejected ==
    [][(LVWrite /\ UnfitMember(lvl)) => (~outs'[Len(outs')].ok /\ disk' = disk)]_vars

----------------------------------------------------------------------------
(* ESO model files: src/model/model.py *)

\* the width of the two name fields of the asset header (64 in the source)
NameWidth == 3

\* the polygons a model of a file under test has at most
MaxPolys == 1

\* EngineVersion, each member as <<bits 48 to 63, bits 0 to 15>> of its value
EngineVersions == {<<24, 3>>, <<24, 4>>, <<208, 3>>, <<209, 3>>, <<214, 3>>, <<219, 3>>, <<223, 3>>}

RECURSIVE RStrip(_)
\* str.rstrip('\x00') on the characters of a name field
RStrip(chars) ==
    IF chars = <<>> \/ chars[Len(chars)] # 0 THEN chars
    ELSE RStrip(SubSeq(chars, 1, Len(chars) - 1))

\* str.ljust(width, '\x00')
LJust(chars, width) == chars \o [n \in 1..(width - Len(chars)) |-> 0]

\* Color.read: the four bytes of the big-endian uint32
ReadColor(u) ==
    [a |-> u \div 16777216, r |-> (u \div 65536) % 256, g |-> (u \div 256) % 256, b |-> u % 256]

\* Color.write: int.from_bytes of the four bytes, big-endian
WriteColor(c) == ((c.a * 256 + c.r) * 256 + c.g) * 256 + c.b

\* TypeFlag.X in type_flags
HasFlag(flags, bit) == (flags \div bit) % 2 = 1

\* Vec3D(0, 0, 0) and the default ESOFooter; a float is held as its literal
ZeroVec == <<"0.0", "0.0", "0.0">>

DefaultFooter == [unknown_1 |-> "0.0", unknown_2 |-> "0.0", unknown_3 |-> 0, unknown_4 |-> 0]

\* ESOModel.read: TypeFlag(...) raises on a bit that is no member, then the asserts
ModelReadOk(fm) ==
    /\ fm.type_flags \in 0..15
    /\ fm.num_verts = fm.num_polys * 3
    /\ fm.unknown_1 = 0

ReadModel(fm) ==
    [asset_material |-> fm.asset_material,
     type_flags |-> fm.type_flags,
     unknown_1 |-> fm.unknown_1,
     vertices |-> fm.vertices,
     normals |-> IF HasFlag(fm.type_flags, 1) THEN fm.normals ELSE <<>>,
     colors |-> IF HasFlag(fm.type_flags, 2)
                THEN [n \in 1..Len(fm.colors) |-> ReadColor(fm.colors[n])] ELSE <<>>,
     tex_coords |-> IF HasFlag(fm.type_flags, 4) THEN fm.tex_coords ELSE <<>>,
     tex_coords_2 |-> IF HasFlag(fm.type_flags, 8) THEN fm.tex_coords_2 ELSE <<>>,
     indices |-> fm.indices]

\* ESO.read: the enum constructor, then num_models models; range(n) is empty for n <= 0
ESOReadOk(f) ==
    /\ f.engine_version \in EngineVersions
    /\ \A n \in 1..f.num_models : n <= Len(f.models) /\ ModelReadOk(f.models[n])
    /\ f.num_models > 0 => Len(f.bounding) = 2 /\ Len(f.footer_flag) = 1
    /\ (f.num_models > 0 /\ f.footer_flag = <<1>>) => Len(f.footer) = 1

ESOReadValue(f) ==
    [asset_header |-> [engine_version |-> f.engine_version,
                       name |-> RStrip(f.name), namespace |-> RStrip(f.namespace)],
     eso_header |-> [unknown_1 |-> f.unknown_1, scale_xyz |-> f.scale_xyz,
                     num_models |-> f.num_models,
                     bounding_min |-> IF f.num_models > 0 THEN f.bounding[1] ELSE ZeroVec,
                     bounding_max |-> IF f.num_models > 0 THEN f.bounding[2] ELSE ZeroVec],
     models |-> [n \in 1..f.num_models |-> ReadModel(f.models[n])],
     footer_check |-> f.num_models > 0 /\ f.footer_flag = <<1>>,
     eso_footer |-> IF f.num_models > 0 /\ f.footer_flag = <<1>> THEN f.footer[1]
                    ELSE DefaultFooter]

NoESO == [none |-> TRUE]

ESORead(f) ==
    IF ESOReadOk(f) THEN [ok |-> TRUE, value |-> ESOReadValue(f)]
    ELSE [ok |-> FALSE, value |-> NoESO]

\* ESOModel.write: the lists of the set flags, the indices made up if there are none
WriteModel(m) ==
    [asset_material |-> m.asset_material,
     type_flags |-> m.type_flags,
     num_verts |-> Len(m.vertices),
     num_polys |-> Len(m.vertices) \div 3,
     unknown_1 |-> m.unknown_1,
     vertices |-> m.vertices,
     normals |-> IF HasFlag(m.type_flags, 1) THEN m.normals ELSE <<>>,
     colors |-> IF HasFlag(m.type_flags, 2)
                THEN [n \in 1..Len(m.colors) |-> WriteColor(m.colors[n])] ELSE <<>>,
     tex_coords |-> IF HasFlag(m.type_flags, 4) THEN m.tex_coords ELSE <<>>,
     tex_coords_2 |-> IF HasFlag(m.type_flags, 8) THEN m.tex_coords_2 ELSE <<>>,
     indices |-> IF m.indices = <<>> THEN [n \in 1..Len(m.vertices) |-> n - 1]
                 ELSE m.indices]

\* ESO.write: assert self.eso_header.num_models == len(self.models), and the
\* assert on the indices of each model
ESOWriteOk(e) ==
    /\ e.eso_header.num_models = Len(e.models)
    /\ \A n \in 1..Len(e.models) :
           Len(WriteModel(e.models[n]).indices) = Len(e.models[n].vertices)

ESOWriteFile(e) ==
    [engine_version |-> e.asset_header.engine_version,
     name |-> LJust(e.asset_header.name, NameWidth),
     namespace |-> LJust(e.asset_header.namespace, NameWidth),
     unknown_1 |-> e.eso_header.unknown_1,
     scale_xyz |-> e.eso_header.scale_xyz,
     num_models |-> e.eso_header.num_models,
     bounding |-> IF e.eso_header.num_models > 0
                  THEN <<e.eso_header.bounding_min, e.eso_header.bounding_max>> ELSE <<>>,
     models |-> [n \in 1..Len(e.models) |-> WriteModel(e.models[n])],
     footer_flag |-> IF Len(e.models) > 0 THEN <<ByteOf(e.footer_check)>> ELSE <<>>,
     footer |-> IF Len(e.models) > 0 /\ e.footer_check THEN <<e.eso_footer>> ELSE <<>>]

ESOWrite(e) ==
    IF ESOWriteOk(e) THEN [ok |-> TRUE, file |-> ESOWriteFile(e)]
    ELSE [ok |-> FALSE, file |-> NotWritten]

\* a float that is not a number is held somewhere in the compared fields
HasNaN(e) ==
    LET nan(vec) == \E k \in 1..Len(vec) : vec[k] = "nan"
        nans(vecs) == \E n \in 1..Len(vecs) : nan(vecs[n])
    IN \/ e.eso_header.scale_xyz = "nan"
       \/ nan(e.eso_header.bounding_min) \/ nan(e.eso_header.bounding_max)
       \/ \E n \in 1..Len(e.models) :
              \/ nans(e.models[n].vertices) \/ nans(e.models[n].normals)
              \/ nans(e.models[n].tex_coords) \/ nans(e.models[n].tex_coords_2)
       \/ e.eso_footer.unknown_1 = "nan" \/ e.eso_footer.unknown_2 = "nan"

\* a == b for the ESO values of two reads: the generated __eq__ compares field by
\* field, and a NaN read from a file equals no float of another read
ESOEq(a, b) == a = b /\ ~HasNaN(a)

\* a model of a file: num_verts vertices and the four per-vertex lists whether or
\* not their flag is set (the reader takes the bytes of an unset list for what
\* comes next; the files under test hold no such bytes)
FileModel(flags, polys, verts, unknown, x) ==
    [asset_material |-> [name |-> 5, namespace |-> 6],
     type_flags |-> flags, num_verts |-> verts, num_polys |-> polys, unknown_1 |-> unknown,
     vertices |-> [n \in 1..verts |-> <<x, "0.0", "1.5">>],
     normals |-> IF HasFlag(flags, 1) THEN [n \in 1..verts |-> ZeroVec] ELSE <<>>,
     colors |-> IF HasFlag(flags, 2) THEN [n \in 1..verts |-> 16909060 + n] ELSE <<>>,
     tex_coords |-> IF HasFlag(flags, 4) THEN [n \in 1..verts |-> <<"0.0", "1.5">>] ELSE <<>>,
     tex_coords_2 |-> IF HasFlag(flags, 8) THEN [n \in 1..verts |-> <<"1.5", "0.0">>] ELSE <<>>,
     indices |-> [n \in 1..(3 * polys) |-> (3 * polys) - n]]

\* the ESO files under test
ESOFiles ==
    {[engine_version |-> ev, name |-> name, namespace |-> <<97, 0, 0>>,
      unknown_1 |-> 1, scale_xyz |-> "1.5", num_models |-> nm,
      bounding |-> IF nm > 0 THEN <<ZeroVec, <<"1.5", "1.5", "1.5">>>> ELSE <<>>,
      models |-> [n \in 1..nm |-> FileModel(IF n = 1 THEN flags ELSE 0, polys,
                                            IF skew THEN 3 * polys + 1 ELSE 3 * polys,
                                            unknown, x)],
      footer_flag |-> IF nm > 0 THEN <<flag>> ELSE <<>>,
      footer |-> IF nm > 0 /\ flag = 1
                 THEN <<[DefaultFooter EXCEPT !.unknown_3 = 7]>> ELSE <<>>] :
        ev \in {<<24, 4>>, <<9, 9>>},
        name \in {<<97, 0, 0>>, <<97, 98, 99>>, <<0, 0, 0>>, <<97, 0, 98>>},
        nm \in {-1, 0, 1, 2}, flags \in {0, 3, 15, 16}, polys \in 0..MaxPolys,
        skew \in BOOLEAN, unknown \in {0, 1}, x \in {"1.5", "nan"}, flag \in {0, 1, 2}}

ESInit ==
    /\ efile \in ESOFiles
    /\ eso = NoESO
    /\ epc = "start"
    /\ eout = <<>>
    /\ eback = [done |-> FALSE]
    /\ DMIdle
    /\ BCIdle
    /\ LVIdle

\* model = ESO.read(file)
ESRead ==
    /\ epc = "start"
    /\ \E r \in {ESORead(efile)} :
           /\ epc' = IF r.ok THEN "loaded" ELSE "rejected"
           /\ eso' = r.value
    /\ UNCHANGED <<efile, eout, eback, dmVars, bcVars, lvVars>>

\* model.write('test/test.eso')
ESWrite ==
    /\ epc = "loaded"
    /\ \E w \in {ESOWrite(eso)} :
           /\ epc' = IF w.ok THEN "written" ELSE "failed"
           /\ eout' = w.file
    /\ UNCHANGED <<efile, eso, eback, dmVars, bcVars, lvVars>>

\* test = ESO.read('test/test.eso')
ESReadBack ==
    /\ epc = "written"
    /\ \E r \in {ESORead(eout)} :
           eback' = [done |-> TRUE, ok |-> r.ok, value |-> r.value]
    /\ epc' = "checked"
    /\ UNCHANGED <<efile, eso, eout, dmVars, bcVars, lvVars>>

ESNext == ESRead \/ ESWrite \/ ESReadBack

SpecESO == ESInit /\ [][ESNext]_vars

\* C18: for every file that ESO.read accepts, ESO.write returns, its output has
\* the bounding box exactly when num_models > 0 and the footer exactly when the
\* footer flag is set, and ESO.read of the output equals the ESO value read first.
C18_ESORoundTrip ==
    /\ epc # "failed"
    /\ epc \in {"written", "checked"} =>
           /\ eout.bounding # <<>> <=> eout.num_models > 0
           /\ eout.footer # <<>> <=> eout.footer_flag = <<1>>
    /\ epc = "checked" => eback.ok /\ ESOEq(eso, eback.value)

\* the smaller of two integers
Min(a, b) == IF a <= b THEN a ELSE b

\* C19: one insert at coordinate c leaves, on every axis, the logical range
\* [min(old low, c), max(old high, c + 1)) and an offset risen by exactly what was
\* padded on the low side; an axis on which c was in range keeps its extent and
\* its offset, also when c underflows some axes and overflows others.
C19_InsertGrowsExactly ==
    [][(last'.op = "insert" /\ Len(placed') = Len(placed) + 1) =>
         \A a \in Axes :
             LET c == last'.coord[a]
                 low == -dm.offset[a]
                 high == dm.map.shape[a] - dm.offset[a]
             IN /\ -dm'.offset[a] = Min(low, c)
                /\ dm'.map.shape[a] - dm'.offset[a] = Max(high, c + 1)
                /\ dm'.offset[a] - dm.offset[a] = Max(0, low - c)
                /\ (low <= c /\ c < high) =>
                       /\ dm'.map.shape[a] = dm.map.shape[a]
                       /\ dm'.offset[a] = dm.offset[a]]_vars

\* (5,5,5) and then (-3,5,0): x is padded on its low side only and y and z are
\* left alone; (-3,5,0) first: x underflows while y overflows
C19_Witness ==
    /\ Len(placed) = 2
    /\ placed[1].coord = <<-3, 5, 0>>
    /\ placed[2].coord = <<5, 5, 5>>
    /\ last.op = "insert"
    /\ dm.offset = <<3, 0, 0>>
    /\ dm.map.shape = <<9, 6, 6>>

RECURSIVE MembersBefore(_, _)
\* how many buttons the sequences before number k have together
MembersBefore(seqs, k) ==
    IF k <= 1 THEN 0 ELSE MembersBefore(seqs, k - 1) + Len(seqs[k - 1].buttons)

\* the written button record is that of the given button of the Level
WrittenFrom(L, rec, button) ==
    /\ rec.visible = Obj(L.heap, button).visible
    /\ rec.disable_count = Obj(L.heap, button).disable_count
    /\ rec.mode = Obj(L.heap, button).mode

\* C20: in the button table of every written file each sequence stands as its
\* parent (parent_id -1, children_count = members - 1, the sequence's events)
\* directly followed by its children, each with the index of that parent as its
\* parent_id; the ordinary buttons make up the rest of the table.
C20_SequencesWrittenInBlocks ==
    \A w \in 1..Len(outs) :
        outs[w].ok =>
            LET table == outs[w].file.buttons
                seqs == lvl.button_sequences
            IN /\ Len(table) = Len(DMGetAll(lvl.dynamic_map, "Button"))
               /\ \A k \in 1..Len(seqs) :
                      LET at == MembersBefore(seqs, k)
                      IN /\ at + Len(seqs[k].buttons) <= Len(table)
                         /\ table[at + 1].parent_id = -1
                         /\ table[at + 1].children_count = Len(seqs[k].buttons) - 1
                         /\ Len(table[at + 1].events) = Len(seqs[k].events)
                         /\ \A n \in 1..Len(seqs[k].events) :
                                LET written == outs[w].file.events[table[at + 1].events[n] + 1]
                                    event == Obj(lvl.heap, RefOf(seqs[k].events[n]))
                                IN written.type = event.type /\ written.payload = event.payload
                         /\ \A n \in 1..Len(seqs[k].buttons) :
                                /\ WrittenFrom(lvl, table[at + n], seqs[k].buttons[n])
                                /\ n > 1 => table[at + n].parent_id = at
               /\ \A n \in (MembersBefore(seqs, Len(seqs) + 1) + 1)..Len(table) :
                      table[n].children_count = 0

\* two sequences and an ordinary button: the second parent is written at index 2,
\* its two children behind it, the ordinary button last
C20_Witness ==
    /\ Len(outs) = 1
    /\ outs[1].ok
    /\ Len(lvl.button_sequences) = 2
    /\ Len(outs[1].file.buttons) = 6
    /\ outs[1].file.buttons[3].children_count = 2
    /\ outs[1].file.buttons[4].parent_id = 2
    /\ outs[1].file.buttons[5].parent_id = 2
    /\ outs[1].file.buttons[6].mode = ModeToggle
    /\ file.buttons[1].mode = ModeToggle

\* C21: a Level.write that returns has put every Button of the dynamic map into
\* its button list exactly once, paired with the coordinate of the cell that
\* holds that button, and has written that coordinate in the button's record;
\* sequence members and buttons with equal field values included.
C21_ButtonsWrittenOnceInPlace ==
    [][(LVWrite /\ outs'[Len(outs')].ok) =>
         LET stored == DMGetAll(lvl.dynamic_map, "Button")
             flat == FlattenButtons(lvl).buttons
             table == outs'[Len(outs')].file.buttons
         IN /\ Len(flat) = Len(stored)
            /\ Len(table) = Len(stored)
            /\ \A s \in 1..Len(stored) :
                   /\ Cardinality({n \in 1..Len(flat) : flat[n].part = stored[s].part}) = 1
                   /\ \A n \in 1..Len(flat) :
                          flat[n].part = stored[s].part =>
                              /\ flat[n].coord = stored[s].coord
                              /\ table[n].is_moving = 0 => table[n].pos = stored[s].coord]_vars

\* the position (from 0) of a part in a list of <<coordinate, part>> pairs, -1 if
\* it is not in the list
PlaceOf(pairs, part) ==
    IF \E n \in 1..Len(pairs) : pairs[n].part = part
    THEN (CHOOSE n \in 1..Len(pairs) : pairs[n].part = part) - 1
    ELSE -1

\* C22: in a Level.write that returns, the ids of the moving platforms, of the
\* bumpers and of the flattened buttons are 0..n-1 in list order, each entity is
\* written at the table position of its id, and every index written in a block
\* event, a button or a cube is the table position of the object referred to.
C22_IdsAreTablePositions ==
    [][(LVWrite /\ outs'[Len(outs')].ok) =>
         LET platforms == DMGetAll(lvl.dynamic_map, "MovingPlatform")
             bumpers == DMGetAll(lvl.dynamic_map, "Bumper")
             cubes == DMGetAll(lvl.dynamic_map, "HoloCube")
             flat == FlattenButtons(lvl)
             ids == AssignAll(flat.heap, platforms, bumpers, flat.buttons)
             out == outs'[Len(outs')].file
             listOf(type) == CASE type = EvPlatform -> platforms
                               [] type = EvBumper -> bumpers
                               [] OTHER -> flat.buttons
         IN /\ \A n \in 1..Len(platforms) :
                   /\ Obj(ids.heap, platforms[n].part).id = n - 1
                   /\ PlaceOf(platforms, platforms[n].part) = n - 1
                   /\ out.platforms[n] = WritePlatform(Obj(ids.heap, platforms[n].part),
                                                       platforms[n].coord)
            /\ \A n \in 1..Len(bumpers) :
                   /\ Obj(ids.heap, bumpers[n].part).id = n - 1
                   /\ PlaceOf(bumpers, bumpers[n].part) = n - 1
                   /\ out.bumpers[n] = WriteBumper(Obj(ids.heap, bumpers[n].part),
                                                   bumpers[n].coord)
            /\ \A n \in 1..Len(flat.buttons) :
                   /\ Obj(ids.heap, flat.buttons[n].part).id = n - 1
                   /\ PlaceOf(flat.buttons, flat.buttons[n].part) = n - 1
                   /\ out.buttons[n] = WriteButton(ids.heap, Obj(ids.heap, flat.buttons[n].part),
                                                   flat.buttons[n].coord)
                   /\ Obj(ids.heap, flat.buttons[n].part).moving_platform.tag = "ref" =>
                          /\ out.buttons[n].is_moving = 1
                          /\ out.buttons[n].platform_id
                               = PlaceOf(platforms,
                                         RefOf(Obj(ids.heap, flat.buttons[n].part).moving_platform))
                          /\ out.buttons[n].platform_id >= 0
            /\ Len(out.platforms) = Len(platforms)
            /\ Len(out.bumpers) = Len(bumpers)
            /\ Len(out.buttons) = Len(flat.buttons)
            /\ Len(out.events) = Len(ids.block_events)
            /\ \A n \in 1..Len(ids.block_events) :
                   LET e == Obj(ids.heap, ids.block_events[n])
                   IN e.type # EvAchievement =>
                          /\ out.events[n].id = PlaceOf(listOf(e.type), RefOf(e.target))
                          /\ out.events[n].id >= 0
            /\ \A n \in 1..Len(cubes) :
                   Obj(ids.heap, cubes[n].part).moving_block_sync.tag = "ref" =>
                       /\ out.cubes[n].sync
                            = PlaceOf(platforms,
                                      RefOf(Obj(ids.heap, cubes[n].part).moving_block_sync))
                       /\ out.cubes[n].sync >= 0]_vars

\* a written file with two platforms in which an event, a button and a cube each
\* name the platform at index 1
C22_Witness ==
    /\ Len(outs) = 1
    /\ outs[1].ok
    /\ Len(outs[1].file.platforms) = 2
    /\ Len(outs[1].file.bumpers) = 2
    /\ outs[1].file.events[1].type = EvPlatform
    /\ outs[1].file.events[1].id = 1
    /\ \E n \in 1..Len(outs[1].file.buttons) :
           outs[1].file.buttons[n].is_moving = 1 /\ outs[1].file.buttons[n].platform_id = 1
    /\ Len(outs[1].file.cubes) = 1
    /\ outs[1].file.cubes[1].sync = 1

RECURSIVE FirstMet(_, _)
\* a list of references without the later occurrences of each reference
FirstMet(refs, seen) ==
    IF refs = <<>> THEN <<>>
    ELSE IF refs[1] \in seen THEN FirstMet(Tail(refs), seen)
    ELSE <<refs[1]>> \o FirstMet(Tail(refs), seen \cup {refs[1]})

\* C23: the block-event table of a Level.write that returns holds every event
\* object attached to a button exactly once, in the order in which the events are
\* first met along the flattened button list and each button's event list, and a
\* button writes for each of its events the table index of that event object.
C23_EventsFirstMetOnce ==
    [][(LVWrite /\ outs'[Len(outs')].ok) =>
         LET flat == FlattenButtons(lvl)
             out == outs'[Len(outs')].file
             eventsOf(n) == Obj(flat.heap, flat.buttons[n].part).events
             walk == FlattenSeq([n \in 1..Len(flat.buttons) |->
                                    [k \in 1..Len(eventsOf(n)) |-> RefOf(eventsOf(n)[k])]])
             table == FirstMet(walk, {})
         IN /\ Len(out.events) = Len(table)
            /\ \A n \in 1..Len(table) :
                   /\ out.events[n].type = Obj(lvl.heap, table[n]).type
                   /\ out.events[n].payload = Obj(lvl.heap, table[n]).payload
                   /\ \A m \in 1..Len(table) : table[m] = table[n] => m = n
            /\ \A n \in 1..Len(flat.buttons) :
                   /\ Len(out.buttons[n].events) = Len(eventsOf(n))
                   /\ \A k \in 1..Len(eventsOf(n)) :
                          table[out.buttons[n].events[k] + 1] = RefOf(eventsOf(n)[k])]_vars

\* the first button lists events 0, 2, 0 and the second 2, 1: the table is written
\* in the order 0, 2, 1
C23_Witness ==
    /\ Len(outs) = 1
    /\ outs[1].ok
    /\ Len(file.buttons) = 2
    /\ file.buttons[1].events = <<0, 2, 0>>
    /\ file.buttons[2].events = <<2, 1>>
    /\ Len(outs[1].file.events) = 3
    /\ outs[1].file.events[2].id = 6
    /\ outs[1].file.events[3].id = 5
    /\ outs[1].file.buttons[1].events = <<0, 1, 0>>
    /\ outs[1].file.buttons[2].events = <<1, 2>>

\* the objects of a heap that carry _position, a waypoint's included
Positioned(heap) ==
    {r \in {Ref(k, i) : k \in DOMAIN heap, i \in 0..4} :
        /\ r.idx < Len(heap[r.kind])
        /\ \/ "pos" \in DOMAIN Obj(heap, r) /\ Obj(heap, r).pos.has # "absent"
           \/ /\ r.kind = "MovingPlatform"
              /\ \E n \in 1..Len(Obj(heap, r).waypoints) :
                     Obj(heap, r).waypoints[n].pos.has # "absent"}

\* the objects of a heap that carry _id
Numbered(heap) ==
    {r \in {Ref(k, i) : k \in DOMAIN heap, i \in 0..4} :
        r.idx < Len(heap[r.kind]) /\ Obj(heap, r).id # NoId}

\* C24: a Level.write that returns leaves no entity with a transient position or
\* an assigned id, and leaves every button's events and linkage fields and the
\* legacy minimap as they were before the call.
C24_WriteLeavesModelAsItWas ==
    [][(LVWrite /\ outs'[Len(outs')].ok) =>
         /\ Positioned(lvl'.heap) = {}
         /\ Numbered(lvl'.heap) = {}
         /\ lvl'.heap.Button = lvl.heap.Button
         /\ lvl'.legacy_minimap = lvl.legacy_minimap]_vars

\* C25: a Level.write that fails leaves no assigned id and no transient position
\* on any entity, so that the ids of a failed call cannot trip the
\* "not hasattr(p, '_id')" asserts of the next call.
C25_FailedWriteLeavesNoIds ==
    [][(LVWrite /\ ~outs'[Len(outs')].ok) =>
         /\ Numbered(lvl'.heap) = Numbered(lvl.heap)
         /\ Numbered(lvl'.heap) = {}
         /\ \A r \in Positioned(lvl'.heap) : Obj(lvl'.heap, r).pos.has = "absent"]_vars

\* C26: whenever Level.write is called on a decoded Level, the size it puts in
\* the header, StaticMap.size, is defined and equals the shape of the collision
\* grid it writes and the header size of the file the Level was decoded from.
C26_HeaderSizeIsGridShape ==
    [][LVWrite =>
         /\ StaticSizeOk(lvl.static_map)
         /\ StaticSize(lvl.static_map) = ToCollisionMap(lvl.static_map).shape
         /\ StaticSize(lvl.static_map) = file.size]_vars

\* C28: while blocks are stored into and read from a StaticMap at non-negative
\* indices, the shape never shrinks on any axis; a store extends exactly the axes
\* its index overflows, leaves every new cell but its own empty and every other
\* cell as it was; a read beyond the shape returns the empty block, a read inside
\* it the stored block, and no read changes the map.
C28_StaticMapGrowsOnly ==
    [][(lpc = "loaded" /\ lpc' = "loaded") =>
         LET old == lvl.static_map
             new == lvl'.static_map
         IN /\ \A a \in Axes : new.shape[a] >= old.shape[a]
            /\ LVSetBlock =>
                   \E key \in MapCoords :
                       /\ \A a \in Axes :
                              new.shape[a] = IF key[a] >= old.shape[a] THEN key[a] + 1
                                             ELSE old.shape[a]
                       /\ \A i \in CellsOf(new.shape) \ {key} : BlockAt(new, i) = BlockAt(old, i)
                       /\ \A i \in CellsOf(new.shape) \ CellsOf(old.shape) :
                              i # key => BlockAt(new, i) = BlockEmpty
                       /\ BlockAt(new, key) \in MapBlocks
                       /\ DOMAIN new.blocks \subseteq CellsOf(new.shape)
            /\ LVGetBlock =>
                   /\ new = old
                   /\ got'.value = IF got'.item \in CellsOf(old.shape)
                                   THEN BlockAt(old, got'.item) ELSE BlockEmpty]_vars

\* a block stored beyond the z extent of a 2 x 1 x 1 map, and a read beyond its y
\* extent afterwards
C28_Witness ==
    /\ lpc = "loaded"
    /\ edits = 1
    /\ lvl.static_map.shape = <<2, 1, 5>>
    /\ BlockAt(lvl.static_map, <<0, 0, 4>>) = BlockFull
    /\ BlockAt(lvl.static_map, <<1, 0, 0>>) = BlockFull
    /\ got = [item |-> <<1, 1, 0>>, value |-> BlockEmpty]

\* C27: every Level.write on a Level whose static map is edited between the
\* calls returns, and the legacy minimap it writes has the dimensions
\* ((x+y+9) div 10, (x+y+2z+9) div 10, 1) of the size in the same header.
C27_EveryWriteFitsMinimap ==
    [][LVWrite =>
         LET out == outs'[Len(outs')]
         IN /\ out.ok
            /\ out.file.mmw = (out.file.size[1] + out.file.size[2] + 9) \div 10
            /\ out.file.mml =
                   (out.file.size[1] + out.file.size[2] + 2 * out.file.size[3] + 9) \div 10
            /\ Len(out.file.minimap) =
                   Len(BCWrite(BCZeros(<<out.file.mmw, out.file.mml, 1>>)))]_vars

\* C29: Level.read stores a moving platform under the absolute position of its
\* first waypoint and gives every waypoint the offset from it, (0,0,0) for the
\* first; Level.write writes the map key plus the offset for every waypoint, which
\* is the position the file had; loop byte 0 is "no loop" and k+1 is waypoint k,
\* both ways.
C29_WaypointsRoundTrip ==
    [][/\ (LVRead /\ lpc' = "loaded") =>
              LET placed1 == DMGetAll(lvl'.dynamic_map, "MovingPlatform")
              IN /\ Len(placed1) = Len(file.platforms)
                 /\ \A n \in 1..Len(placed1) :
                        LET o == Obj(lvl'.heap, placed1[n].part)
                            fp == file.platforms[placed1[n].part.idx + 1]
                        IN /\ placed1[n].coord = fp.waypoints[1].pos
                           /\ o.waypoints[1].offset = <<0, 0, 0>>
                           /\ \A k \in 1..Len(fp.waypoints) :
                                  PointAdd(placed1[n].coord, o.waypoints[k].offset)
                                      = fp.waypoints[k].pos
                           /\ o.loop = IF fp.loop = 0 THEN NoneInt ELSE fp.loop - 1
       /\ (LVWrite /\ outs'[Len(outs')].ok) =>
              LET placed1 == DMGetAll(lvl.dynamic_map, "MovingPlatform")
                  table == outs'[Len(outs')].file.platforms
              IN /\ Len(table) = Len(placed1)
                 /\ \A n \in 1..Len(placed1) :
                        LET o == Obj(lvl.heap, placed1[n].part)
                            fp == file.platforms[placed1[n].part.idx + 1]
                        IN /\ Len(table[n].waypoints) = Len(o.waypoints)
                           /\ \A k \in 1..Len(o.waypoints) :
                                  /\ table[n].waypoints[k].pos =
                                         PointAdd(placed1[n].coord, o.waypoints[k].offset)
                                  /\ table[n].waypoints[k].pos = fp.waypoints[k].pos
                           /\ table[n].loop = (IF o.loop = NoneInt THEN 0 ELSE o.loop + 1)
                           /\ table[n].loop = fp.loop]_vars

\* a written file with a platform anchored at (1,0,0) that loops to waypoint 1 and
\* one that does not loop
C29_Witness ==
    /\ Len(outs) = 1
    /\ outs[1].ok
    /\ Len(outs[1].file.platforms) = 2
    /\ \E n \in 1..2 :
           /\ outs[1].file.platforms[n].loop = 2
           /\ outs[1].file.platforms[n].waypoints[1].pos = P1
           /\ outs[1].file.platforms[n].waypoints[2].pos = <<1, 0, 1>>
           /\ outs[1].file.platforms[3 - n].loop = 0
    /\ \E r \in {Ref("MovingPlatform", 0), Ref("MovingPlatform", 1)} :
           /\ Obj(lvl.heap, r).loop = 1
           /\ Obj(lvl.heap, r).waypoints[2].offset = <<0, 0, 1>>

\* C30: Level.read accepts every file that a Level.write has completed.
C30_WrittenFileAccepted ==
    reread.done => reread.ok

====
